---- MODULE Spec2Model ----
(***************************************************************************)
(* Model of the DICOMweb retrieval scheduler (app/dicomweb_utils.py), the  *)
(* study/series aggregation (app/models.py) and the pixel pipeline's       *)
(* control flow (app/image_utils.py).                                      *)
(*                                                                         *)
(* Spec         process_dicom_wado_study: main thread + pool workers       *)
(* SpecWorkers  optimize_max_workers as a pure function                    *)
(* SpecSort     DicomStudy.add_instance / finalize on arbitrary datasets   *)
(* SpecPil      dicom_to_pil, one stage per step                           *)
(***************************************************************************)
EXTENDS Integers, Sequences, FiniteSets, TLC

VARIABLES
    pc,            \* position of the thread running process_dicom_wado_study
    raisedExc,     \* what process_dicom_wado_study raised to its caller, "none" if nothing
    urlConfigured, \* DICOM_WADO_URL is set (environment)
    requested,     \* the max_workers argument as passed by the caller
    max_workers,   \* the local max_workers (reassigned at line 183)
    metadata,      \* the JSON tree returned by get_study_metadata
    si, ri, ii,    \* loop cursors: study, series, instance (1-based)
    dicom_study,   \* the DicomStudy being populated
    studies,       \* the result dict, in insertion order
    downloaded_instances,
    queue,         \* executor work queue (submitted, not started)
    running,       \* download_dicom_instance calls in flight
    finished,      \* futures completed, not yet yielded by as_completed: the
                   \* task, the event its call met and what the call handed back
    nSubmitted,    \* len(future_to_sop)
    nCollected,    \* futures yielded so far in the current series
    metaFetches,   \* number of get_study_metadata calls issued
    fetchCount,    \* task -> number of download_dicom_instance calls started
    okTasks,       \* tasks whose download returned a dataset that is truthy
    added,         \* log of dicom_study.add_instance calls (datasets, in call order)
    seriesDone,    \* series <<si, ri>> whose add loop (line 270) has run
    finalizeLog,   \* log of dicom_study.finalize calls: the study and the number
                   \* of add_instance calls made before it
    wk,            \* SpecWorkers: [total, requested, result]
    asm,           \* SpecSort: the DicomStudy under test and its call log
    pil,           \* SpecPil: dicom_to_pil activation record
    win,           \* SpecWindow: apply_window activation record
    srv,           \* SpecRender: the state of the service (main.py)
    fc,            \* SpecFrames: get_frame_count activation record
    pdf            \* SpecPdf: create_pdf_from_studies activation record

schedVars == <<pc, raisedExc, urlConfigured, requested, max_workers, metadata, si, ri, ii,
               dicom_study, studies, downloaded_instances, queue, running,
               finished, nSubmitted, nCollected, metaFetches, fetchCount,
               okTasks, added, seriesDone, finalizeLog>>

vars == <<schedVars, wk, asm, pil, win, srv, fc, pdf>>

\* Optional[Dataset]: None is the empty sequence, a dataset ds is <<ds>>.
None == << >>

(***************************************************************************)
(* Bounds of the model.                                                    *)
(***************************************************************************)
MaxInst == 3    \* fetchable instances declared in one metadata tree
MaxZ == 1       \* Z positions 0..MaxZ the server answers with
MaxAdds == 3    \* add_instance calls explored by SpecSort
MaxTotal == 60  \* declared totals 0..MaxTotal explored by SpecWorkers
MaxFrames == 2  \* frame counts 1..MaxFrames explored by SpecPil
MaxPixels == 2  \* pixel arrays of 1..MaxPixels values explored by SpecWindow
MaxPixel == 3   \* pixel values -MaxPixel..MaxPixel
MaxCenter == 2  \* window centers -MaxCenter..MaxCenter
MaxWidth == 3   \* window widths -MaxWidth..MaxWidth
MaxRequests == 3 \* render requests received by the service in SpecRender
MaxExam == 2    \* exam identifiers 1..MaxExam

\* Declared entries without 'sop_iuid' used to lift the declared total over
\* the second threshold of optimize_max_workers (line 137) with few fetches.
PadCount == 8

\* Values a client can send as max_workers (main.py RenderRequest: any int).
Requested == {0, 1, 2, 4}

(***************************************************************************)
(* Metadata trees.  A tree is [hasStudies, studies]; a study is            *)
(* [uid, series]; a series is [uid, instances]; an instance entry is TRUE  *)
(* when it carries 'sop_iuid'.  uid is TRUE when the identifier is present.*)
(* Identifiers are positional: study si, series <<si, ri>>, object         *)
(* <<si, ri, k>>.                                                          *)
(***************************************************************************)
AllSop(n) == [i \in 1..n |-> TRUE]

Ser(n) == [uid |-> TRUE, instances |-> AllSop(n)]

Stu(ss) == [uid |-> TRUE, series |-> ss]

Meta(st) == [hasStudies |-> TRUE, studies |-> st]

NoStudiesKey == [hasStudies |-> FALSE, studies |-> << >>]

MetadataChoices ==
    {NoStudiesKey, Meta(<< >>), Meta(<<Stu(<< >>)>>)}
    \cup {Meta(<<Stu(<<Ser(n)>>)>>) : n \in 0..MaxInst}
    \cup {Meta(<<Stu(<<Ser(a), Ser(MaxInst - a)>>)>>) : a \in 0..MaxInst}
    \cup {Meta(<<Stu(<<Ser(a)>>), Stu(<<Ser(MaxInst - a)>>)>>) : a \in 0..MaxInst}
    \cup {Meta(<<[uid |-> FALSE, series |-> <<Ser(1)>>], Stu(<<Ser(MaxInst - 1)>>)>>)}
    \cup {Meta(<<Stu(<<[uid |-> FALSE, instances |-> AllSop(1)], Ser(MaxInst - 1)>>)>>)}
    \cup {Meta(<<Stu(<<[uid |-> TRUE, instances |-> [i \in 1..MaxInst |-> i # 2]]>>)>>)}
    \cup {Meta(<<Stu(<<[uid |-> TRUE,
                        instances |-> [i \in 1..(MaxInst + PadCount) |-> i <= MaxInst]]>>)>>)}

SeriesUid(s, r) == 10 * s + r

\* getattr(dataset, 'SeriesInstanceUID', 'UNKNOWN')
UNKNOWN == 0

(***************************************************************************)
(* Datasets.  Each attribute the code reads is a status plus a value:      *)
(* "absent" (no such attribute), "bad" (present, not convertible), "ok".   *)
(* oid stands for id(ds); filename and str(id(ds)) are strings, modelled   *)
(* by their rank in string order.  elements is len(ds), the number of data *)
(* elements: a dataset without any is falsy in Python.                     *)
(***************************************************************************)
\* The attributes DicomStudy.add_instance copies to the study (models.py 78-87).
DescAttrs == {"PatientName", "PatientID", "StudyDate", "AccessionNumber",
              "StudyDescription"}

\* hasattr(dataset, a) is FALSE
NoAttr == [has |-> FALSE, value |-> ""]

\* a dataset that carries none of the descriptive attributes
NoDesc == [a \in DescAttrs |-> NoAttr]

\* The attributes a DicomSeries is described by (models.py 24-26, 72).
SeriesAttrs == {"SeriesDescription", "Modality"}

\* a dataset that carries none of them
NoSeriesAttrs == [a \in SeriesAttrs |-> NoAttr]

DS(sop, suid, zst, z, nst, num, fnst, fn, oid) ==
    [sop |-> sop, elements |-> 1, hasSeries |-> TRUE, SeriesInstanceUID |-> suid,
     zst |-> zst, z |-> z, nst |-> nst, num |-> num,
     fnst |-> fnst, filename |-> fn, oid |-> oid, desc |-> NoDesc,
     ser |-> NoSeriesAttrs]

\* A parsed file that holds no data element at all.
EmptyDataset(sop) ==
    [sop |-> sop, elements |-> 0, hasSeries |-> FALSE, SeriesInstanceUID |-> UNKNOWN,
     zst |-> "absent", z |-> 0, nst |-> "absent", num |-> 0,
     fnst |-> "ok", filename |-> 0, oid |-> 0, desc |-> NoDesc,
     ser |-> NoSeriesAttrs]

\* What the server can answer for one object: the Z position varies, and the
\* datasets, all parsed from an in-memory stream, carry the same filename value.
ServerDatasets(task) ==
    {DS(task, SeriesUid(task[1], task[2]), "ok", z, "absent", 0, "ok", 0, 0) : z \in 0..MaxZ}
    \cup {EmptyDataset(task)}

(***************************************************************************)
(* models.py                                                               *)
(***************************************************************************)
\* Variant: the instance number is compared before the Z position.
sort_key_number_first(ds) ==
    <<IF ds.nst = "ok" THEN ds.num ELSE 0,
      IF ds.zst = "ok" THEN ds.z ELSE 0,
      IF ds.fnst = "ok" THEN ds.filename ELSE ds.oid>>

sort_key(ds) ==
    <<IF ds.zst = "ok" THEN ds.z ELSE 0,
      IF ds.nst = "ok" THEN ds.num ELSE 0,
      IF ds.fnst = "ok" THEN ds.filename ELSE ds.oid>>

\* Python tuple comparison a < b
KeyLess(a, b) ==
    \/ a[1] < b[1]
    \/ a[1] = b[1] /\ a[2] < b[2]
    \/ a[1] = b[1] /\ a[2] = b[2] /\ a[3] < b[3]

\* Variant: x goes before the elements of equal key (an unstable sort).
RECURSIVE InsertBeforeEqual(_, _)
InsertBeforeEqual(sorted, x) ==
    IF sorted = << >> THEN <<x>>
    ELSE IF ~KeyLess(sort_key(Head(sorted)), sort_key(x))
         THEN <<x>> \o sorted
         ELSE <<Head(sorted)>> \o InsertBeforeEqual(Tail(sorted), x)

\* Place x after every element whose key is not greater (stable).
RECURSIVE Insert(_, _)
Insert(sorted, x) ==
    IF sorted = << >> THEN <<x>>
    ELSE IF KeyLess(sort_key(x), sort_key(Head(sorted)))
         THEN <<x>> \o sorted
         ELSE <<Head(sorted)>> \o Insert(Tail(sorted), x)

RECURSIVE SortFrom(_, _)
SortFrom(sorted, rest) ==
    IF rest = << >> THEN sorted
    ELSE SortFrom(Insert(sorted, Head(rest)), Tail(rest))

\* list.sort(key=sort_key): stable, ascending
sort_instances(instances) == SortFrom(<< >>, instances)

\* DicomStudy.__init__
NewStudy(uid) ==
    [study_uid |-> uid, series |-> << >>, patient_name |-> "", patient_id |-> "",
     study_date |-> "", accession_number |-> "", study_description |-> ""]

SeriesIndex(study, suid) ==
    IF \E i \in 1..Len(study.series) : study.series[i].series_uid = suid
    THEN CHOOSE i \in 1..Len(study.series) : study.series[i].series_uid = suid
    ELSE 0

\* Variant: the bucket is the series the instance was requested under.
RoutingKeyRequested(ds) == SeriesUid(ds.sop[1], ds.sop[2])

\* line 69: series_uid = getattr(dataset, 'SeriesInstanceUID', 'UNKNOWN')
RoutingKey(ds) == IF ds.hasSeries THEN ds.SeriesInstanceUID ELSE UNKNOWN

\* Variant: the field is assigned whenever the dataset carries the attribute.
LastWrite(cur, attr) == IF attr.has THEN attr.value ELSE cur

\* lines 78-87: if not self.<field> and hasattr(dataset, <attr>):
\*                  self.<field> = str(dataset.<attr>)
\* The field is unset as long as it is the empty string.
FirstWrite(cur, attr) == IF cur = "" /\ attr.has THEN attr.value ELSE cur

\* lines 72-73: DicomSeries(series_uid, getattr(dataset, 'SeriesDescription', ''))
NewSeries(suid, ds) ==
    [series_uid |-> suid,
     series_description |-> IF ds.ser["SeriesDescription"].has
                            THEN ds.ser["SeriesDescription"].value ELSE "",
     instances |-> << >>,
     modality |-> ""]

\* DicomSeries.add_instance (lines 22-26)
DicomSeries_add_instance(series, ds) ==
    [series EXCEPT !.instances = Append(@, ds),
                   !.modality = FirstWrite(@, ds.ser["Modality"])]

\* lines 69-75: route by the dataset's own SeriesInstanceUID, creating the
\* series on first sight, then append.
RouteInstance(study, ds) ==
    LET suid == RoutingKey(ds)
        i == SeriesIndex(study, suid)
    IN IF i = 0
       THEN [study EXCEPT !.series =
                Append(@, DicomSeries_add_instance(NewSeries(suid, ds), ds))]
       ELSE [study EXCEPT !.series[i] = DicomSeries_add_instance(@, ds)]

\* DicomStudy.add_instance
add_instance(study, ds) ==
    [RouteInstance(study, ds) EXCEPT
        !.patient_name = FirstWrite(@, ds.desc["PatientName"]),
        !.patient_id = FirstWrite(@, ds.desc["PatientID"]),
        !.study_date = FirstWrite(@, ds.desc["StudyDate"]),
        !.accession_number = FirstWrite(@, ds.desc["AccessionNumber"]),
        !.study_description = FirstWrite(@, ds.desc["StudyDescription"])]

RECURSIVE AddAll(_, _)
AddAll(study, dss) ==
    IF dss = << >> THEN study
    ELSE AddAll(add_instance(study, Head(dss)), Tail(dss))

\* DicomStudy.finalize
finalize(study) ==
    [study EXCEPT !.series =
        [i \in 1..Len(study.series) |->
            [study.series[i] EXCEPT !.instances = sort_instances(@)]]]

(***************************************************************************)
(* dicomweb_utils.py                                                       *)
(***************************************************************************)
\* Variant: the thresholds are compared with < instead of <=.
optimize_max_workers_strict(total_instances, requested_workers) ==
    LET Min(a, b) == IF a <= b THEN a ELSE b
    IN IF total_instances < 2 THEN 1
       ELSE IF total_instances < 10 THEN Min(2, requested_workers)
       ELSE IF total_instances < 50 THEN Min(4, requested_workers)
       ELSE Min(8, requested_workers)

optimize_max_workers(total_instances, requested_workers) ==
    LET Min(a, b) == IF a <= b THEN a ELSE b
    IN IF total_instances <= 2 THEN 1
       ELSE IF total_instances <= 10 THEN Min(2, requested_workers)
       ELSE IF total_instances <= 50 THEN Min(4, requested_workers)
       ELSE Min(8, requested_workers)

RECURSIVE SumSeries(_)
SumSeries(ss) ==
    IF ss = << >> THEN 0 ELSE Len(Head(ss).instances) + SumSeries(Tail(ss))

RECURSIVE SumStudies(_)
SumStudies(st) ==
    IF st = << >> THEN 0 ELSE SumSeries(Head(st).series) + SumStudies(Tail(st))

\* Variant: the instances of the first series only are counted.
total_of_first_series(m) ==
    IF m.studies = << >> \/ m.studies[1].series = << >> THEN 0
    ELSE Len(m.studies[1].series[1].instances)

\* lines 174-177: metadata.get('studies', []) counted over every entry
total_instances_count(m) == SumStudies(m.studies)

\* Variant: a tree without the key is read as an empty list of studies.
HasStudiesKeyLenient(m) == TRUE

\* line 189
HasStudiesKey(m) == m.hasStudies

\* What one download_dicom_instance call can meet inside its try block.
FetchEvents == {"ok", "transport", "status", "timeout", "decode"}

\* Variant: the handler names the transport errors only, a decode error escapes.
CaughtTransportOnly(ev) == ev # "decode"

\* line 120: except Exception
Caught(ev) == TRUE

\* download_dicom_instance: what the call hands back for an event met
\* inside its try block; raised is TRUE when the exception leaves the function.
download_dicom_instance(ev, ds) ==
    IF ev = "ok" THEN [raised |-> FALSE, value |-> <<ds>>]
    ELSE IF Caught(ev) THEN [raised |-> FALSE, value |-> None]
    ELSE [raised |-> TRUE, value |-> None]

\* bool(dataset) for an Optional[Dataset]
Truthy(dataset) == dataset # None /\ dataset[1].elements > 0

\* Variant: a failed fetch discards what the series has collected so far.
CollectedAbort(dl, dataset) == IF Truthy(dataset) THEN dl \o dataset ELSE << >>

\* lines 244-245 and 254-255: if dataset: downloaded_instances.append(dataset)
Collected(dl, dataset) == IF Truthy(dataset) THEN dl \o dataset ELSE dl

\* Variant: the pool admits one call more than its size.
CanStartLoose(run, w) == Cardinality(run) <= w

\* ThreadPoolExecutor(max_workers=w): a queued call starts only on a free worker
CanStart(run, w) == Cardinality(run) < w

\* Variant: the scheduling thread goes on without waiting for the futures.
PoolLeftEarly(ns, nc, q, run) == TRUE

\* Variant: the collecting loop waits for one result per declared entry,
\* submitted or not.
PoolLeftCountsDeclared(ns, nc, q, run) ==
    nc >= Len(metadata.studies[si].series[ri].instances) /\ q = << >> /\ run = {}

\* lines 225-245: the as_completed loop ends once every submitted future has
\* been yielded, and the with block is left when the executor has shut down
\* (shutdown(wait=True)): nothing queued, nothing running
PoolLeft(ns, nc, q, run) == nc >= ns /\ q = << >> /\ run = {}

\* Variant: the block that finalizes the study sits inside the series loop
\* and ends the study after its first series.
SeriesLoopDoneEarly(r, series) == r > 1

\* line 206: the for loop over series_list is exhausted
SeriesLoopDone(r, series) == r > Len(series)

\* Variant: a selected count of one worker already takes the pool.
UseParallelFromOne(w, instances) == w >= 1 /\ Len(instances) >= 2

\* line 221
UseParallel(w, instances) == w > 1 /\ Len(instances) >= 2

\* Variant: the study is kept whether or not it holds a series.
KeepStudyAlways(study) == TRUE

\* line 277: if dicom_study.series
KeepStudy(study) == study.series # << >>

Bump(f, t) == IF t \in DOMAIN f THEN [f EXCEPT ![t] = @ + 1] ELSE f @@ (t :> 1)

CurStudy == metadata.studies[si]
CurSeries == CurStudy.series[ri]
CurInstances == CurSeries.instances

(***************************************************************************)
(* process_dicom_wado_study                                                *)
(***************************************************************************)
WkIdle == wk = [total |-> 0, requested |-> 0, result |-> 0, done |-> TRUE]

AsmIdle == asm = [study |-> NewStudy(0), log |-> << >>, finalized |-> TRUE]

PilIdle == pil = [pc |-> "idle"]

WinIdle == win = [pc |-> "idle"]

SrvIdle == srv = [pc |-> "idle"]

FcIdle == fc = [pc |-> "idle"]

PdfIdle == pdf = [pc |-> "idle"]

SchedState(p, url, req) ==
    /\ pc = p
    /\ raisedExc = "none"
    /\ urlConfigured = url
    /\ requested = req
    /\ max_workers = requested
    /\ metadata = NoStudiesKey
    /\ si = 1 /\ ri = 1 /\ ii = 1
    /\ dicom_study = NewStudy(0)
    /\ studies = << >>
    /\ downloaded_instances = << >>
    /\ queue = << >>
    /\ running = {}
    /\ finished = {}
    /\ nSubmitted = 0
    /\ nCollected = 0
    /\ metaFetches = 0
    /\ fetchCount = << >>
    /\ okTasks = {}
    /\ added = << >>
    /\ seriesDone = {}
    /\ finalizeLog = << >>

SchedIdle == SchedState("idle", TRUE, 0)

Init ==
    /\ \E url \in BOOLEAN, req \in Requested : SchedState("start", url, req)
    /\ WkIdle /\ AsmIdle /\ PilIdle /\ WinIdle /\ SrvIdle /\ FcIdle /\ PdfIdle

aux == <<wk, asm, pil, win, srv, fc, pdf>>
cursors == <<si, ri, ii>>
pool == <<queue, running, finished, nSubmitted, nCollected>>
hist == <<metaFetches, fetchCount, okTasks, added, seriesDone, finalizeLog>>
inputs == <<urlConfigured, requested>>

\* line 163: get_dicom_wado_url() raises ValueError when the variable is unset
CheckUrl ==
    /\ pc = "start"
    /\ pc' = IF urlConfigured THEN "metadata" ELSE "raised"
    /\ raisedExc' = IF urlConfigured THEN raisedExc ELSE "url"
    /\ UNCHANGED <<inputs, max_workers, metadata, cursors, dicom_study, studies,
                   downloaded_instances, pool, hist, aux>>

\* line 168: get_study_metadata answers with a tree
GetStudyMetadata ==
    /\ pc = "metadata"
    /\ \E m \in MetadataChoices : metadata' = m
    /\ metaFetches' = metaFetches + 1
    /\ pc' = "organize"
    /\ UNCHANGED <<raisedExc, inputs, max_workers, cursors, dicom_study, studies,
                   downloaded_instances, pool, fetchCount, okTasks, added,
                   seriesDone, finalizeLog, aux>>

\* lines 73-75: get_study_metadata logs and re-raises, the caller re-raises
GetStudyMetadataFails ==
    /\ pc = "metadata"
    /\ metaFetches' = metaFetches + 1
    /\ pc' = "raised"
    /\ raisedExc' = "network"
    /\ UNCHANGED <<inputs, max_workers, metadata, cursors, dicom_study, studies,
                   downloaded_instances, pool, fetchCount, okTasks, added,
                   seriesDone, finalizeLog, aux>>

\* lines 173-190: count, optimize the worker count, check the 'studies' key
Organize ==
    /\ pc = "organize"
    /\ max_workers' = optimize_max_workers(total_instances_count(metadata), max_workers)
    /\ pc' = IF HasStudiesKey(metadata) THEN "study" ELSE "raised"
    /\ raisedExc' = IF HasStudiesKey(metadata) THEN raisedExc ELSE "missing_studies"
    /\ si' = 1
    /\ UNCHANGED <<inputs, metadata, ri, ii, dicom_study, studies,
                   downloaded_instances, pool, hist, aux>>

\* lines 193-204: next study of the loop
NextStudy ==
    /\ pc = "study"
    /\ si <= Len(metadata.studies)
    /\ IF CurStudy.uid
       THEN /\ dicom_study' = NewStudy(si)
            /\ ri' = 1
            /\ pc' = "series"
            /\ si' = si
       ELSE /\ si' = si + 1
            /\ UNCHANGED <<dicom_study, ri, pc>>
    /\ UNCHANGED <<raisedExc, inputs, max_workers, metadata, ii, studies,
                   downloaded_instances, pool, hist, aux>>

\* lines 206-223, 248: next series of the loop, choice of the download path
NextSeries ==
    /\ pc = "series"
    /\ ri <= Len(CurStudy.series)
    /\ IF CurSeries.uid
       THEN /\ downloaded_instances' = << >>
            /\ ii' = 1
            /\ nSubmitted' = 0
            /\ nCollected' = 0
            /\ pc' = IF UseParallel(max_workers, CurInstances) THEN "submit" ELSE "seq"
            /\ ri' = ri
       ELSE /\ ri' = ri + 1
            /\ UNCHANGED <<downloaded_instances, ii, nSubmitted, nCollected, pc>>
    /\ UNCHANGED <<raisedExc, inputs, max_workers, metadata, si, dicom_study, studies,
                   queue, running, finished, hist, aux>>

\* lines 228-235: executor.submit for the next declared instance
Submit ==
    /\ pc = "submit"
    /\ IF ii <= Len(CurInstances)
       THEN /\ ii' = ii + 1
            /\ pc' = pc
            /\ IF CurInstances[ii]
               THEN /\ queue' = Append(queue, <<si, ri, ii>>)
                    /\ nSubmitted' = nSubmitted + 1
               ELSE UNCHANGED <<queue, nSubmitted>>
       ELSE /\ pc' = "collect"
            /\ UNCHANGED <<ii, queue, nSubmitted>>
    /\ UNCHANGED <<raisedExc, inputs, max_workers, metadata, si, ri, dicom_study, studies,
                   downloaded_instances, running, finished, nCollected, hist, aux>>

\* a pool worker takes the next queued call and enters download_dicom_instance
WorkerStart ==
    /\ queue # << >>
    /\ CanStart(running, max_workers)
    /\ running' = running \cup {Head(queue)}
    /\ queue' = Tail(queue)
    /\ fetchCount' = Bump(fetchCount, Head(queue))
    /\ UNCHANGED <<raisedExc, pc, inputs, max_workers, metadata, cursors, dicom_study, studies,
                   downloaded_instances, finished, nSubmitted, nCollected,
                   metaFetches, okTasks, added, seriesDone, finalizeLog, aux>>

\* lines 83-122 in a worker: the call returns and its future completes
WorkerFinish ==
    \E t \in running, ev \in FetchEvents : \E ds \in ServerDatasets(t) :
        LET res == download_dicom_instance(ev, ds)
        IN /\ pc # "seq_wait"   \* that call belongs to the scheduling thread
           /\ running' = running \ {t}
           /\ finished' = finished \cup {[task |-> t, ev |-> ev, res |-> res]}
           /\ okTasks' = IF Truthy(res.value) THEN okTasks \cup {t} ELSE okTasks
           /\ UNCHANGED <<raisedExc, pc, inputs, max_workers, metadata, cursors, dicom_study,
                          studies, downloaded_instances, queue, nSubmitted,
                          nCollected, metaFetches, fetchCount, added, seriesDone, finalizeLog, aux>>

\* lines 240-245: as_completed yields a completed future; future.result()
\* re-raises what the call raised.  Leaving the loop and the with block
\* (executor shutdown, wait=True) needs every future done.
Collect ==
    /\ pc = "collect"
    /\ \/ /\ nCollected < nSubmitted
          /\ \E f \in finished :
              /\ finished' = finished \ {f}
              /\ nCollected' = nCollected + 1
              /\ IF f.res.raised
                 THEN /\ pc' = "raised"
                      /\ raisedExc' = "download"
                      /\ UNCHANGED downloaded_instances
                 ELSE /\ pc' = pc
                      /\ downloaded_instances' = Collected(downloaded_instances, f.res.value)
                      /\ UNCHANGED raisedExc
       \/ /\ PoolLeft(nSubmitted, nCollected, queue, running)
          /\ pc' = "add"
          /\ UNCHANGED <<finished, nCollected, downloaded_instances, raisedExc>>
    /\ UNCHANGED <<inputs, max_workers, metadata, cursors, dicom_study, studies,
                   queue, running, nSubmitted, hist, aux>>

\* lines 250-253: the scheduling thread itself enters download_dicom_instance
SeqFetch ==
    /\ pc = "seq"
    /\ IF ii <= Len(CurInstances)
       THEN IF CurInstances[ii]
            THEN /\ running' = running \cup {<<si, ri, ii>>}
                 /\ fetchCount' = Bump(fetchCount, <<si, ri, ii>>)
                 /\ pc' = "seq_wait"
                 /\ ii' = ii
            ELSE /\ ii' = ii + 1
                 /\ UNCHANGED <<running, fetchCount, pc>>
       ELSE /\ pc' = "add"
            /\ UNCHANGED <<running, fetchCount, ii>>
    /\ UNCHANGED <<raisedExc, inputs, max_workers, metadata, si, ri, dicom_study, studies,
                   downloaded_instances, queue, finished, nSubmitted, nCollected,
                   metaFetches, okTasks, added, seriesDone, finalizeLog, aux>>

\* lines 253-255: the sequential call returns
SeqReturn ==
    /\ pc = "seq_wait"
    /\ \E ev \in FetchEvents, ds \in ServerDatasets(<<si, ri, ii>>) :
        LET res == download_dicom_instance(ev, ds)
        IN /\ running' = running \ {<<si, ri, ii>>}
           /\ okTasks' = IF Truthy(res.value) THEN okTasks \cup {<<si, ri, ii>>} ELSE okTasks
           /\ IF res.raised
              THEN /\ pc' = "raised"
                   /\ raisedExc' = "download"
                   /\ UNCHANGED <<downloaded_instances, ii>>
              ELSE /\ pc' = "seq"
                   /\ ii' = ii + 1
                   /\ UNCHANGED raisedExc
                   /\ downloaded_instances' = Collected(downloaded_instances, res.value)
    /\ UNCHANGED <<inputs, max_workers, metadata, si, ri, dicom_study, studies,
                   queue, finished, nSubmitted, nCollected, metaFetches, fetchCount,
                   added, seriesDone, finalizeLog, aux>>

\* lines 269-274: hand every downloaded dataset to dicom_study.add_instance
AddInstances ==
    /\ pc = "add"
    /\ dicom_study' = AddAll(dicom_study, downloaded_instances)
    /\ added' = added \o downloaded_instances
    /\ seriesDone' = seriesDone \cup {<<si, ri>>}
    /\ ri' = ri + 1
    /\ pc' = "series"
    /\ UNCHANGED <<raisedExc, inputs, max_workers, metadata, si, ii, studies,
                   downloaded_instances, pool, metaFetches, fetchCount, okTasks,
                   finalizeLog, aux>>

\* lines 276-282: after the last series, finalize and keep the study
FinalizeStudy ==
    /\ pc = "series"
    /\ SeriesLoopDone(ri, CurStudy.series)
    /\ IF KeepStudy(dicom_study)
       THEN /\ studies' = Append(studies, finalize(dicom_study))
            /\ finalizeLog' = Append(finalizeLog, [study |-> si, adds |-> Len(added)])
       ELSE UNCHANGED <<studies, finalizeLog>>
    /\ si' = si + 1
    /\ pc' = "study"
    /\ UNCHANGED <<raisedExc, inputs, max_workers, metadata, ri, ii, dicom_study,
                   downloaded_instances, pool, metaFetches, fetchCount, okTasks,
                   added, seriesDone, aux>>

\* lines 284-304: after the last study, return studies
Return ==
    /\ pc = "study"
    /\ si > Len(metadata.studies)
    /\ pc' = "done"
    /\ UNCHANGED <<raisedExc, inputs, max_workers, metadata, cursors, dicom_study, studies,
                   downloaded_instances, pool, hist, aux>>

Next ==
    \/ CheckUrl
    \/ GetStudyMetadata
    \/ GetStudyMetadataFails
    \/ Organize
    \/ NextStudy
    \/ NextSeries
    \/ Submit
    \/ WorkerStart
    \/ WorkerFinish
    \/ Collect
    \/ SeqFetch
    \/ SeqReturn
    \/ AddInstances
    \/ FinalizeStudy
    \/ Return

Spec == Init /\ [][Next]_vars

(***************************************************************************)
(* Properties of process_dicom_wado_study (specification Spec)             *)
(***************************************************************************)
Range(q) == {q[i] : i \in 1..Len(q)}

SeriesOf(t) == <<t[1], t[2]>>

InFlightOneSeries == \A t \in running \cup Range(queue) : SeriesOf(t) = <<si, ri>>

PoolDrained ==
    pc \in {"add", "series", "study", "done"} =>
        running = {} /\ queue = << >> /\ finished = {}

\* C1 as stated: at every moment the number of download_dicom_instance calls
\* in flight is at most the selected worker count, all of them belong to the
\* series being processed, and the pool is drained before the next series.
C1_InFlightAtMostWorkers ==
    /\ Cardinality(running) <= max_workers
    /\ InFlightOneSeries
    /\ PoolDrained

\* C1 (amended): the calls in flight number at most max(1, selected worker
\* count) -- a selected count below 1 still fetches one at a time -- all of
\* them belong to the series being processed, and the pool of a series is
\* drained before anything of the next series starts.
C1_InFlightBounded ==
    /\ Cardinality(running) <= (IF max_workers >= 1 THEN max_workers ELSE 1)
    /\ InFlightOneSeries
    /\ PoolDrained

\* C1 witness: the pool is saturated with more calls waiting behind it.
C1_Witness ==
    /\ pc = "collect"
    /\ max_workers >= 2
    /\ Cardinality(running) = max_workers
    /\ queue # << >>

RECURSIVE ByPosition(_, _)
\* the datasets of instances in declared order (object position k upward)
ByPosition(instances, k) ==
    IF \A i \in 1..Len(instances) : instances[i].sop[3] < k THEN << >>
    ELSE SelectSeq(instances, LAMBDA d : d.sop[3] = k) \o ByPosition(instances, k + 1)

\* what the sequential path (declared order of arrival) finalizes to
SequentialOrder(instances) == sort_instances(ByPosition(instances, 1))

\* C2: for the datasets a series ended up with, the finalized order is the
\* order the sequential path produces for the same datasets, whichever order
\* the concurrent fetches completed in.
C2_OrderIndependentOfCompletion ==
    pc = "done" =>
        \A s \in 1..Len(studies) : \A r \in 1..Len(studies[s].series) :
            studies[s].series[r].instances
                = SequentialOrder(studies[s].series[r].instances)

\* C5: once the metadata answer lacks 'studies', the call can only raise:
\* it returns no study, has issued no instance fetch and has fetched the
\* metadata exactly once.
C5_MissingStudiesIsFatal ==
    (metaFetches >= 1 /\ raisedExc # "network" /\ ~metadata.hasStudies) =>
        /\ pc \in {"organize", "raised"}
        /\ pc = "raised" => raisedExc = "missing_studies"
        /\ studies = << >>
        /\ fetchCount = << >>
        /\ queue = << >> /\ running = {}
        /\ metaFetches = 1

\* C5 witness: the call has raised on a tree without the key.
C5_Witness ==
    /\ pc = "raised"
    /\ raisedExc = "missing_studies"
    /\ ~metadata.hasStudies
    /\ metaFetches = 1

\* C6: with the 'studies' key present and no instance fetched successfully
\* (none declared, or every fetch failed), the call never raises and what it
\* returns is the empty result.
C6_NoDataIsEmptyResult ==
    (metaFetches >= 1 /\ raisedExc # "network" /\ metadata.hasStudies /\ okTasks = {}) =>
        /\ pc # "raised"
        /\ studies = << >>

\* C6 witness: the call returned after fetches that all failed.
C6_Witness ==
    /\ pc = "done"
    /\ studies = << >>
    /\ okTasks = {}
    /\ fetchCount # << >>

\* The other case of C6: series are declared, no instance is.
C6_WitnessNoInstances ==
    /\ pc = "done"
    /\ studies = << >>
    /\ metadata.studies # << >>
    /\ fetchCount = << >>

\* C7: no download_dicom_instance call raises to its caller (no future holds
\* an exception, the study call never fails because of a download), a call
\* that met an error hands back None, and each declared descriptor is fetched
\* at most once.
C7_NoRaiseNoRetry ==
    /\ \A f \in finished : ~f.res.raised /\ (f.ev # "ok" => f.res.value = None)
    /\ raisedExc # "download"
    /\ \A t \in DOMAIN fetchCount : fetchCount[t] <= 1

\* C7 witness: the call returned although a fetch had failed, in the pool.
C7_Witness ==
    /\ pc = "done"
    /\ max_workers > 1
    /\ \E t \in DOMAIN fetchCount : t \notin okTasks

AddedOf(sr) == SelectSeq(added, LAMBDA d : SeriesOf(d.sop) = sr)

DeclaredSeries(m) ==
    {<<s, r>> \in (1..Len(m.studies)) \X (1..(MaxInst + 1)) :
        /\ m.studies[s].uid
        /\ r <= Len(m.studies[s].series)
        /\ m.studies[s].series[r].uid}

\* C8: for every processed series the datasets handed to add_instance are
\* exactly those of the declared instances whose fetch succeeded, each once;
\* a failed fetch never makes the call raise; and when the call returns every
\* declared series of every study has been processed.
C8_PartialSuccess ==
    /\ \A sr \in seriesDone :
          /\ {AddedOf(sr)[i].sop : i \in 1..Len(AddedOf(sr))}
                = {t \in okTasks : SeriesOf(t) = sr}
          /\ Len(AddedOf(sr)) = Cardinality({t \in okTasks : SeriesOf(t) = sr})
    /\ raisedExc # "download"
    /\ pc = "done" => seriesDone = DeclaredSeries(metadata)

\* C8 witness: a pool-fetched series with a failed fetch before a successful
\* one, followed by a further series, all processed.
C8_Witness ==
    /\ pc = "done"
    /\ max_workers > 1
    /\ \E t1 \in DOMAIN fetchCount, t2 \in okTasks :
          /\ t1 \notin okTasks
          /\ SeriesOf(t1) = SeriesOf(t2)
          /\ t1[3] < t2[3]
          /\ \E t3 \in okTasks : SeriesOf(t3) # SeriesOf(t1)

\* C9: every study of the result has a series, every series of it has an
\* instance, and a study none of whose fetches succeeded is not in the result.
C9_NoEmptyStudy ==
    \A s \in 1..Len(studies) :
        /\ studies[s].series # << >>
        /\ \A r \in 1..Len(studies[s].series) : studies[s].series[r].instances # << >>
        /\ \E t \in okTasks : t[1] = studies[s].study_uid

\* C9 witness: of two declared studies one is kept and the other, all of
\* whose fetches failed, is dropped.
C9_Witness ==
    /\ pc = "done"
    /\ Len(metadata.studies) = 2
    /\ \A s \in 1..2 : metadata.studies[s].uid /\ \E t \in DOMAIN fetchCount : t[1] = s
    /\ Len(studies) = 1

\* C12: the study is written by the scheduling thread alone and never while
\* a fetch is under way: whenever add_instance is about to run for a series
\* every fetch of that series has finished and been collected, and every
\* step that changes the study or the add_instance log is a step of the
\* scheduling thread taken while no call is queued, running or uncollected
\* (so no step of a pool worker changes them).
C12_SingleWriter ==
    /\ [](pc = "add" => (running = {} /\ queue = << >> /\ finished = {}
                            /\ nCollected = nSubmitted))
    /\ [][(dicom_study' # dicom_study \/ added' # added \/ studies' # studies)
            => (/\ pc \in {"study", "series", "add"}
                /\ running = {} /\ queue = << >> /\ finished = {}
                /\ UNCHANGED <<running, queue, finished>>)]_vars

\* C12 witness: a series fetched by the pool (several workers, several
\* fetches) whose datasets have been handed to add_instance.
C12_Witness ==
    /\ pc = "series"
    /\ max_workers > 1
    /\ nSubmitted >= 2
    /\ Len(added) >= 2
    /\ <<si, ri - 1>> \in seriesDone

\* the fetches started so far for the series being processed
StartedOfCurrent == {t \in DOMAIN fetchCount : SeriesOf(t) = <<si, ri>>}

\* the fetchable declared instances of the current series before position k
DeclaredBefore(k) ==
    {<<si, ri, j>> : j \in {j \in 1..Len(CurInstances) : j < k /\ CurInstances[j]}}

\* C19: while a series is being fetched, it is in the pool exactly when the
\* selected worker count is above 1 and the series declares at least 2
\* instances.  In every other case no call is ever queued, at most one call
\* is in flight, the calls started are at every moment exactly the declared
\* instances up to the current position (so each starts after the previous
\* one returned, in declared order), and the datasets collected stand in
\* declared order.
C19_PoolOrSequential ==
    pc \in {"submit", "collect", "seq", "seq_wait", "add"} =>
        LET pooled == max_workers > 1 /\ Len(CurInstances) >= 2
        IN /\ pc \in {"submit", "collect"} => pooled
           /\ pc \in {"seq", "seq_wait"} => ~pooled
           /\ ~pooled =>
                 /\ queue = << >> /\ finished = {}
                 /\ nSubmitted = 0
                 /\ pc = "seq" => running = {} /\ StartedOfCurrent = DeclaredBefore(ii)
                 /\ pc = "seq_wait" =>
                       /\ running = {<<si, ri, ii>>}
                       /\ StartedOfCurrent = DeclaredBefore(ii + 1)
                 /\ pc = "add" => running = {}
                 /\ \A a, b \in 1..Len(downloaded_instances) :
                       a < b => downloaded_instances[a].sop[3]
                                    < downloaded_instances[b].sop[3]
                 /\ \A a \in 1..Len(downloaded_instances) :
                       SeriesOf(downloaded_instances[a].sop) = <<si, ri>>

\* C19 witness: one worker selected, a series of three declared instances
\* fetched one at a time, the second failed: the first and the third stand
\* collected in declared order.
C19_Witness ==
    /\ pc = "add"
    /\ max_workers = 1
    /\ Len(CurInstances) = 3
    /\ Len(downloaded_instances) = 2
    /\ downloaded_instances[1].sop[3] = 1
    /\ downloaded_instances[2].sop[3] = 3
    /\ <<si, ri, 2>> \in DOMAIN fetchCount \ okTasks

\* A second case of C19: several workers selected and a series declaring one
\* instance, fetched by the scheduling thread itself.
C19_WitnessOneInstance ==
    /\ pc = "seq_wait"
    /\ max_workers > 1
    /\ Len(CurInstances) = 1

FinalizeCalls(s) == SelectSeq(finalizeLog, LAMBDA e : e.study = s)

\* C13: every study of the result has been finalized exactly once (and no
\* other study ever is), at a moment when every declared series of that
\* study had been through its add_instance loop, and every add_instance on
\* that study came before its finalize: none follows it.
C13_FinalizeOnceAfterAdds ==
    /\ {studies[i].study_uid : i \in 1..Len(studies)}
          = {finalizeLog[i].study : i \in 1..Len(finalizeLog)}
    /\ Len(studies) = Len(finalizeLog)
    /\ \A i \in 1..Len(finalizeLog) :
          LET s == finalizeLog[i].study
          IN /\ Len(FinalizeCalls(s)) = 1
             /\ {sr \in DeclaredSeries(metadata) : sr[1] = s} \subseteq seriesDone
             /\ \A k \in 1..Len(added) :
                   added[k].sop[1] = s => k <= finalizeLog[i].adds

\* C13 witness: a study was finalized after its add_instance calls, a later
\* study then received instances of its own and was finalized in turn.
C13_Witness ==
    /\ Len(finalizeLog) >= 1
    /\ \E k \in 1..Len(added) : added[k].sop[1] # finalizeLog[1].study
    /\ finalizeLog[1].adds >= 1
    /\ pc = "done"
    /\ Len(finalizeLog) = 2

(***************************************************************************)
(* SpecFair: process_dicom_wado_study with the scheduling the code relies  *)
(* on.  The scheduling thread keeps running; the executor hands a queued   *)
(* call to a worker thread whenever one is free; every call of             *)
(* download_dicom_instance returns (requests.get is given timeout=30).     *)
(***************************************************************************)
\* the steps of the thread that called process_dicom_wado_study
SchedulingThread ==
    \/ CheckUrl
    \/ GetStudyMetadata
    \/ GetStudyMetadataFails
    \/ Organize
    \/ NextStudy
    \/ NextSeries
    \/ Submit
    \/ Collect
    \/ SeqFetch
    \/ SeqReturn
    \/ AddInstances
    \/ FinalizeStudy
    \/ Return

SpecFair ==
    /\ Init /\ [][Next]_vars
    /\ WF_vars(SchedulingThread)
    /\ WF_vars(WorkerStart)
    /\ WF_vars(WorkerFinish)

\* positions a study, a series or an instance can have in a metadata tree
Positions == 1..(MaxInst + 1)

\* the instances the tree declares with a 'sop_iuid', in series and studies
\* that carry their identifiers
DeclaredInstances(m) ==
    {t \in Positions \X Positions \X Positions :
        /\ <<t[1], t[2]>> \in DeclaredSeries(m)
        /\ t[3] <= Len(m.studies[t[1]].series[t[2]].instances)
        /\ m.studies[t[1]].series[t[2]].instances[t[3]]}

\* C25: with every call of download_dicom_instance returning, the call of
\* process_dicom_wado_study ends; once the loop over the studies is entered
\* it ends by returning, and it returns with every declared series processed
\* and every declared instance fetched, whatever the outcome and the pace of
\* the other fetches.
C25_FetchesTerminate ==
    /\ <>(pc \in {"done", "raised"})
    /\ (pc = "study") ~> (pc = "done")
    /\ [](pc = "done" =>
            /\ seriesDone = DeclaredSeries(metadata)
            /\ DOMAIN fetchCount = DeclaredInstances(metadata))

\* C25 witness: the call returned after a first series fetched in the pool,
\* in which a fetch failed, and a second series fetched after it.
C25_Witness ==
    /\ pc = "done"
    /\ max_workers > 1
    /\ \E t \in DOMAIN fetchCount : t[2] = 1 /\ t \notin okTasks
    /\ \E t \in DOMAIN fetchCount : t[2] = 2
    /\ \E t \in DOMAIN fetchCount, u \in DOMAIN fetchCount :
          t[2] = 1 /\ u[2] = 1 /\ t # u

(***************************************************************************)
(* SpecWorkers: optimize_max_workers applied to every declared total and   *)
(* requested worker count of the explored ranges.                          *)
(***************************************************************************)
WorkerRequests == {0, 1, 2, 4, 8, 16}

InitWorkers ==
    /\ SchedIdle /\ AsmIdle /\ PilIdle /\ WinIdle /\ SrvIdle /\ FcIdle /\ PdfIdle
    /\ \E t \in 0..MaxTotal, r \in WorkerRequests :
          wk = [total |-> t, requested |-> r, result |-> 0, done |-> FALSE]

Optimize ==
    /\ ~wk.done
    /\ wk' = [wk EXCEPT !.result = optimize_max_workers(wk.total, wk.requested),
                        !.done = TRUE]
    /\ UNCHANGED <<schedVars, asm, pil, win, srv, fc, pdf>>

NextWorkers == Optimize

SpecWorkers == InitWorkers /\ [][NextWorkers]_vars

\* C4: for requested in {1, 4, 8, 16} the result is 1 for totals up to 2,
\* min(2, requested) for 3..10, min(4, requested) for 11..50 and
\* min(8, requested) above 50.
C4_WorkerTable ==
    (wk.done /\ wk.requested \in {1, 4, 8, 16}) =>
        wk.result =
            CASE wk.total <= 2 -> 1
              [] wk.total \in 3..10 -> (IF wk.requested = 1 THEN 1 ELSE 2)
              [] wk.total \in 11..50 -> (IF wk.requested = 1 THEN 1 ELSE 4)
              [] OTHER -> (CASE wk.requested = 1 -> 1
                             [] wk.requested = 4 -> 4
                             [] OTHER -> 8)

\* C4 witness: a total above 50 with 16 requested gives 8.
C4_Witness ==
    wk.done /\ wk.total > 50 /\ wk.requested = 16 /\ wk.result = 8

(***************************************************************************)
(* SpecSort: a DicomStudy receives datasets of one series by add_instance, *)
(* in any order of keys, and is then finalized.  sop[3] is the arrival     *)
(* number of the dataset; no code reads it.                                *)
(***************************************************************************)
ZChoices == {<<"absent", 0>>, <<"ok", 0>>, <<"ok", 1>>}
NumChoices == {<<"bad", 0>>, <<"ok", 1>>}
FilenameChoices == {0, 1}
ObjectIds == {2, 3}

UsedIds == {asm.log[i].oid : i \in 1..Len(asm.log)}

InitSort ==
    /\ SchedIdle /\ WkIdle /\ PilIdle /\ WinIdle /\ SrvIdle /\ FcIdle /\ PdfIdle
    /\ asm = [study |-> NewStudy(1), log |-> << >>, finalized |-> FALSE]

AsmApply(ds) ==
    /\ asm' = [asm EXCEPT !.study = add_instance(@, ds), !.log = Append(@, ds)]
    /\ UNCHANGED <<schedVars, wk, pil, win, srv, fc, pdf>>

\* add_instance of a dataset that carries a filename attribute
AsmAddNamed ==
    /\ ~asm.finalized
    /\ Len(asm.log) < MaxAdds
    /\ \E zc \in ZChoices, nc \in NumChoices, fn \in FilenameChoices :
          AsmApply(DS(<<1, 1, Len(asm.log) + 1>>, SeriesUid(1, 1),
                      zc[1], zc[2], nc[1], nc[2], "ok", fn, 0))

\* add_instance of a dataset without one: the key falls back to str(id(ds)),
\* any value no live dataset has
AsmAddUnnamed ==
    /\ ~asm.finalized
    /\ Len(asm.log) < MaxAdds
    /\ \E zc \in ZChoices, nc \in NumChoices, id \in ObjectIds \ UsedIds :
          AsmApply(DS(<<1, 1, Len(asm.log) + 1>>, SeriesUid(1, 1),
                      zc[1], zc[2], nc[1], nc[2], "absent", 0, id))

AsmFinalize ==
    /\ ~asm.finalized
    /\ asm' = [asm EXCEPT !.study = finalize(@), !.finalized = TRUE]
    /\ UNCHANGED <<schedVars, wk, pil, win, srv, fc, pdf>>

NextSort == AsmAddNamed \/ AsmAddUnnamed \/ AsmFinalize

SpecSort == InitSort /\ [][NextSort]_vars

InArrivalOrder(instances, Tie(_, _)) ==
    \A i, j \in 1..Len(instances) :
        (i < j /\ Tie(instances[i], instances[j]))
            => instances[i].sop[3] < instances[j].sop[3]

TieZNum(a, b) == sort_key(a)[1] = sort_key(b)[1] /\ sort_key(a)[2] = sort_key(b)[2]

TieFullKey(a, b) == sort_key(a) = sort_key(b)

\* C3 as stated: after sort_instances, two instances with the same Z key and
\* the same instance-number key stand in their arrival order.
C3_TiesOnZAndNumberKeepArrival ==
    asm.finalized =>
        \A r \in 1..Len(asm.study.series) :
            InArrivalOrder(asm.study.series[r].instances, TieZNum)

\* C3 (amended): after sort_instances, two instances with the same Z key, the
\* same instance-number key and the same third key (filename, else the
\* object identity string) stand in their arrival order.
C3_FullTiesKeepArrival ==
    asm.finalized =>
        \A r \in 1..Len(asm.study.series) :
            InArrivalOrder(asm.study.series[r].instances, TieFullKey)

\* C3 witness: a finalized series in which a full tie was moved as a pair
\* behind a later arrival of smaller key.
C3_Witness ==
    /\ asm.finalized
    /\ Len(asm.log) = 3
    /\ TieFullKey(asm.log[1], asm.log[2])
    /\ KeyLess(sort_key(asm.log[3]), sort_key(asm.log[1]))
    /\ asm.study.series[1].instances = <<asm.log[3], asm.log[1], asm.log[2]>>

(***************************************************************************)
(* SpecOrder: as SpecSort, with Z positions and instance numbers on both   *)
(* sides of the default 0, absent or unparsable, and one filename value.   *)
(***************************************************************************)
\* ImagePositionPatient: absent (or empty), third component unparsable, or a
\* position
ZStates == {<<"absent", 0>>, <<"bad", 0>>, <<"ok", 0 - 1>>, <<"ok", 1>>}

\* InstanceNumber: absent, unparsable, or a number
NumStates == {<<"absent", 0>>, <<"bad", 0>>, <<"ok", 0 - 1>>, <<"ok", 1>>}

InitOrder ==
    /\ SchedIdle /\ WkIdle /\ PilIdle /\ WinIdle /\ SrvIdle /\ FcIdle /\ PdfIdle
    /\ asm = [study |-> NewStudy(1), log |-> << >>, finalized |-> FALSE]

AsmAddKeyed ==
    /\ ~asm.finalized
    /\ Len(asm.log) < MaxAdds
    /\ \E zc \in ZStates, nc \in NumStates :
          AsmApply(DS(<<1, 1, Len(asm.log) + 1>>, SeriesUid(1, 1),
                      zc[1], zc[2], nc[1], nc[2], "ok", 0, 0))

NextOrder == AsmAddKeyed \/ AsmFinalize

SpecOrder == InitOrder /\ [][NextOrder]_vars

\* the Z position of the claim: 0 when absent or unparsable
ZOrZero(ds) == IF ds.zst \in {"absent", "bad"} THEN 0 ELSE ds.z

\* the instance number of the claim: 0 when absent or unparsable
NumberOrZero(ds) == IF ds.nst \in {"absent", "bad"} THEN 0 ELSE ds.num

\* C18: after finalize, in every series an instance never stands before one
\* of smaller Z position (0 when absent or unparsable), nor, at equal Z
\* position, before one of smaller instance number (0 when absent or
\* unparsable); and the series still holds exactly the instances added.
C18_SortedByZThenNumber ==
    asm.finalized =>
        \A r \in 1..Len(asm.study.series) :
            LET inst == asm.study.series[r].instances
            IN /\ \A i, j \in 1..Len(inst) :
                     i < j =>
                        \/ ZOrZero(inst[i]) < ZOrZero(inst[j])
                        \/ /\ ZOrZero(inst[i]) = ZOrZero(inst[j])
                           /\ NumberOrZero(inst[i]) <= NumberOrZero(inst[j])
               /\ Len(inst) = Len(asm.log)
               /\ Range(inst) = Range(asm.log)

\* C18 witness: arrivals with Z 1, then no Z and number 1, then unparsable Z
\* and number -1: finalize reverses them.
C18_Witness ==
    /\ asm.finalized
    /\ Len(asm.log) = 3
    /\ asm.log[1].zst = "ok" /\ asm.log[1].z = 1
    /\ asm.log[2].zst = "absent" /\ asm.log[2].nst = "ok" /\ asm.log[2].num = 1
    /\ asm.log[3].zst = "bad" /\ asm.log[3].nst = "ok" /\ asm.log[3].num = 0 - 1
    /\ asm.study.series[1].instances = <<asm.log[3], asm.log[2], asm.log[1]>>

(***************************************************************************)
(* SpecRoute: a DicomStudy receives datasets requested under one of two    *)
(* series, each declaring the series it was requested under, the other     *)
(* one, or none.  sop[2] is the series of the request, sop[3] the arrival   *)
(* number.                                                                 *)
(***************************************************************************)
RequestedSeries == {1, 2}

\* SeriesInstanceUID inside the dataset: <<present, value>>
DeclaredSeriesUids == {<<FALSE, UNKNOWN>>, <<TRUE, SeriesUid(1, 1)>>, <<TRUE, SeriesUid(1, 2)>>}

InitRoute ==
    /\ SchedIdle /\ WkIdle /\ PilIdle /\ WinIdle /\ SrvIdle /\ FcIdle /\ PdfIdle
    /\ asm = [study |-> NewStudy(1), log |-> << >>, finalized |-> FALSE]

AsmAddRouted ==
    /\ ~asm.finalized
    /\ Len(asm.log) < MaxAdds
    /\ \E r \in RequestedSeries, d \in DeclaredSeriesUids :
          AsmApply([DS(<<1, r, Len(asm.log) + 1>>, d[2], "ok", 0, "ok", 1, "ok", 0, 0)
                        EXCEPT !.hasSeries = d[1]])

NextRoute == AsmAddRouted \/ AsmFinalize

SpecRoute == InitRoute /\ [][NextRoute]_vars

\* the buckets that hold dataset ds
BucketsOf(study, ds) ==
    {r \in 1..Len(study.series) : ds \in Range(study.series[r].instances)}

RECURSIVE SumInstances(_)
SumInstances(ss) ==
    IF ss = << >> THEN 0 ELSE Len(Head(ss).instances) + SumInstances(Tail(ss))

\* the identifiers the log declares, in order of first sight
RECURSIVE FirstSights(_, _)
FirstSights(log, seen) ==
    IF log = << >> THEN << >>
    ELSE LET u == IF Head(log).hasSeries THEN Head(log).SeriesInstanceUID ELSE UNKNOWN
         IN IF u \in seen THEN FirstSights(Tail(log), seen)
            ELSE <<u>> \o FirstSights(Tail(log), seen \cup {u})

\* C20: after any sequence of add_instance calls every added instance is in
\* exactly one series bucket, the one keyed by the identifier the instance
\* declares itself (the UNKNOWN bucket when it declares none), whatever
\* series it was requested under; there is one bucket per declared
\* identifier, created at its first sight; and the buckets together hold as
\* many instances as there were calls.
C20_RoutedByOwnSeries ==
    /\ \A k \in 1..Len(asm.log) :
          LET ds == asm.log[k]
              own == IF ds.hasSeries THEN ds.SeriesInstanceUID ELSE UNKNOWN
          IN /\ Cardinality(BucketsOf(asm.study, ds)) = 1
             /\ \A r \in BucketsOf(asm.study, ds) : asm.study.series[r].series_uid = own
    /\ [r \in 1..Len(asm.study.series) |-> asm.study.series[r].series_uid]
          = FirstSights(asm.log, {})
    /\ SumInstances(asm.study.series) = Len(asm.log)

\* C20 witness: an instance requested under series 1 that declares series 2,
\* one that declares nothing, one requested under series 2 that declares it:
\* two buckets, series 2 with the first and the third, UNKNOWN with the second.
C20_Witness ==
    /\ Len(asm.log) = 3
    /\ asm.log[1].sop[2] = 1
    /\ asm.log[3].sop[2] = 2
    /\ Len(asm.study.series) = 2
    /\ asm.study.series[1].series_uid = SeriesUid(1, 2)
    /\ asm.study.series[1].instances = <<asm.log[1], asm.log[3]>>
    /\ asm.study.series[2].series_uid = UNKNOWN
    /\ asm.study.series[2].instances = <<asm.log[2]>>

(***************************************************************************)
(* SpecFields: a DicomStudy receives datasets that carry, or not, the      *)
(* descriptive attributes, with empty or non-empty values.                 *)
(***************************************************************************)
\* str(dataset.<attr>): an attribute present with an empty value gives ""
AttrValues == {"", "A", "B"}

DescChoices ==
    {NoDesc}
    \cup {[a \in DescAttrs |-> [has |-> TRUE, value |-> v]] : v \in AttrValues}
    \cup {[a \in DescAttrs |-> IF a = f THEN [has |-> TRUE, value |-> v] ELSE NoAttr] :
             f \in DescAttrs, v \in AttrValues}

InitFields ==
    /\ SchedIdle /\ WkIdle /\ PilIdle /\ WinIdle /\ SrvIdle /\ FcIdle /\ PdfIdle
    /\ asm = [study |-> NewStudy(1), log |-> << >>, finalized |-> FALSE]

\* add_instance of a dataset of the series with some descriptive attributes
AsmAddDescribed ==
    /\ ~asm.finalized
    /\ Len(asm.log) < MaxAdds
    /\ \E d \in DescChoices :
          AsmApply([DS(<<1, 1, Len(asm.log) + 1>>, SeriesUid(1, 1),
                       "ok", 0, "ok", 1, "ok", 0, 0) EXCEPT !.desc = d])

NextFields == AsmAddDescribed \/ AsmFinalize

SpecFields == InitFields /\ [][NextFields]_vars

\* the study field fed by attribute a
FieldOf(study, a) ==
    CASE a = "PatientName" -> study.patient_name
      [] a = "PatientID" -> study.patient_id
      [] a = "StudyDate" -> study.study_date
      [] a = "AccessionNumber" -> study.accession_number
      [] a = "StudyDescription" -> study.study_description

\* the value of attribute a in the first dataset of the log satisfying Sel,
\* the empty string when there is none
FirstValue(log, a, Sel(_)) ==
    LET I == {i \in 1..Len(log) : Sel(log[i].desc[a])}
    IN IF I = {} THEN ""
       ELSE log[CHOOSE i \in I : \A j \in I : i <= j].desc[a].value

Carries(attr) == attr.has

CarriesValue(attr) == attr.has /\ attr.value # ""

\* C14 as stated: after any sequence of add_instance calls each descriptive
\* field holds the value of the first added instance that carries the
\* attribute (and is empty when none does).
C14_FirstCarrierWins ==
    \A a \in DescAttrs : FieldOf(asm.study, a) = FirstValue(asm.log, a, Carries)

\* C14 (amended): after any sequence of add_instance calls each descriptive
\* field holds the value of the first added instance that carries the
\* attribute with a non-empty value (and is empty when none does): a field
\* that holds a non-empty value is never overwritten, an empty one counts as
\* not yet set.
C14_FirstNonEmptyWins ==
    \A a \in DescAttrs : FieldOf(asm.study, a) = FirstValue(asm.log, a, CarriesValue)

\* C14 witness: the first instance lacks the patient name, the second brings
\* "A", the third brings "B": the study keeps "A".
C14_Witness ==
    /\ Len(asm.log) = 3
    /\ ~asm.log[1].desc["PatientName"].has
    /\ asm.log[2].desc["PatientName"] = [has |-> TRUE, value |-> "A"]
    /\ asm.log[3].desc["PatientName"] = [has |-> TRUE, value |-> "B"]
    /\ asm.study.patient_name = "A"

(***************************************************************************)
(* SpecSeries: the instances of one series arrive carrying, or not, a      *)
(* SeriesDescription and a Modality (models.py 16-26, 69-75).              *)
(***************************************************************************)
SeriesAttrChoices ==
    [SeriesAttrs -> {NoAttr} \cup {[has |-> TRUE, value |-> v] : v \in AttrValues}]

InitSeries ==
    /\ SchedIdle /\ WkIdle /\ PilIdle /\ WinIdle /\ SrvIdle /\ FcIdle /\ PdfIdle
    /\ asm = [study |-> NewStudy(1), log |-> << >>, finalized |-> FALSE]

\* add_instance of a dataset of the series with some series attributes
AsmAddSeriesDescribed ==
    /\ ~asm.finalized
    /\ Len(asm.log) < MaxAdds
    /\ \E d \in SeriesAttrChoices :
          AsmApply([DS(<<1, 1, Len(asm.log) + 1>>, SeriesUid(1, 1),
                       "ok", 0, "ok", 1, "ok", 0, 0) EXCEPT !.ser = d])

NextSeriesFields == AsmAddSeriesDescribed \/ AsmFinalize

SpecSeries == InitSeries /\ [][NextSeriesFields]_vars

\* the series field fed by attribute a
SeriesFieldOf(series, a) ==
    CASE a = "SeriesDescription" -> series.series_description
      [] a = "Modality" -> series.modality

\* the value of series attribute a in the first dataset of the log that
\* carries it with a non-empty value, the empty string when there is none
FirstSeriesValue(log, a) ==
    LET I == {i \in 1..Len(log) : CarriesValue(log[i].ser[a])}
    IN IF I = {} THEN ""
       ELSE log[CHOOSE i \in I : \A j \in I : i <= j].ser[a].value

\* C21: for every series, the description and the modality both hold the
\* first non-empty value carried by any instance added to that series,
\* also when the first instance added carried an empty or missing value.
C21_SeriesFirstNonEmptyWins ==
    \A i \in 1..Len(asm.study.series) : \A a \in SeriesAttrs :
        SeriesFieldOf(asm.study.series[i], a) = FirstSeriesValue(asm.log, a)

(***************************************************************************)
(* SpecFrames: get_frame_count (image_utils.py 281-300) applied to a       *)
(* dataset described by its NumberOfFrames attribute and by what reading   *)
(* pixel_array gives: an exception, or an array of some shape.             *)
(***************************************************************************)
\* line 295: shape[0] < 100
FrameAxisLimit == 100

\* largest number of axes of a pixel buffer
MaxRank == 3

\* axis sizes around the values the code compares with
AxisSizes == {1, 2, 3, FrameAxisLimit - 1, FrameAxisLimit, FrameAxisLimit + 1}

Shapes == UNION {[1..n -> AxisSizes] : n \in 2..MaxRank}

\* NumberOfFrames: not in the dataset, present without a value (None), or a
\* number
FrameAttrs ==
    {[has |-> FALSE, valued |-> FALSE, value |-> 0],
     [has |-> TRUE, valued |-> FALSE, value |-> 0]}
    \cup {[has |-> TRUE, valued |-> TRUE, value |-> n] : n \in 0..MaxFrames}

FrameDatasets ==
    [NumberOfFrames : FrameAttrs, pixels : {"ok", "raises"}, shape : Shapes]

\* line 285: hasattr(dataset, 'NumberOfFrames') and dataset.NumberOfFrames > 1;
\* comparing None with 1 raises TypeError
DeclaresFramesRaises(ds) ==
    ds.NumberOfFrames.has /\ ~ds.NumberOfFrames.valued

DeclaresFrames(ds) ==
    /\ ds.NumberOfFrames.has
    /\ ds.NumberOfFrames.valued
    /\ ds.NumberOfFrames.value > 1

\* Variant: the check for a colour image (lines 291-293) is missing.
get_frame_count_no_colour(ds) ==
    IF DeclaresFramesRaises(ds) THEN 1
    ELSE IF DeclaresFrames(ds) THEN ds.NumberOfFrames.value
    ELSE IF ds.pixels = "raises" THEN 1
    ELSE IF Len(ds.shape) > 2
            /\ ds.shape[1] < FrameAxisLimit /\ ds.shape[1] < ds.shape[2]
         THEN ds.shape[1]
    ELSE 1

\* lines 281-300
get_frame_count(ds) ==
    IF DeclaresFramesRaises(ds) THEN 1                      \* lines 299-300
    ELSE IF DeclaresFrames(ds) THEN ds.NumberOfFrames.value \* lines 285-286
    ELSE IF ds.pixels = "raises" THEN 1                     \* lines 288, 299-300
    ELSE IF Len(ds.shape) > 2
         THEN IF ds.shape[Len(ds.shape)] = 3 THEN 1         \* lines 291-293
              ELSE IF ds.shape[1] < FrameAxisLimit /\ ds.shape[1] < ds.shape[2]
                   THEN ds.shape[1]                         \* lines 295-296
              ELSE 1
    ELSE 1                                                  \* line 298

InitFrames ==
    /\ SchedIdle /\ WkIdle /\ AsmIdle /\ PilIdle /\ WinIdle /\ SrvIdle /\ PdfIdle
    /\ \E ds \in FrameDatasets : fc = [pc |-> "call", dataset |-> ds, result |-> 0]

FrameCount ==
    /\ fc.pc = "call"
    /\ fc' = [fc EXCEPT !.pc = "done", !.result = get_frame_count(fc.dataset)]
    /\ UNCHANGED <<schedVars, wk, asm, pil, win, srv, pdf>>

NextFrames == FrameCount

SpecFrames == InitFrames /\ [][NextFrames]_vars

\* C22: for a dataset without NumberOfFrames, get_frame_count returns 1 when
\* reading the pixel buffer fails; otherwise 1 when the buffer's trailing axis
\* has size 3; otherwise the leading-axis size when the buffer has more than
\* 2 axes and the leading axis is below 100 and below the next axis;
\* otherwise 1.
C22_FrameCountWithoutAttribute ==
    (fc.pc = "done" /\ ~fc.dataset.NumberOfFrames.has) =>
        LET shape == fc.dataset.shape
        IN fc.result =
             IF fc.dataset.pixels = "raises" THEN 1
             ELSE IF shape[Len(shape)] = 3 THEN 1
             ELSE IF Len(shape) > 2 /\ shape[1] < FrameAxisLimit
                     /\ shape[1] < shape[2]
                  THEN shape[1]
             ELSE 1

\* C22 witness: a three-axis buffer of 2 x 99 x 100 without NumberOfFrames
\* counts 2 frames.
C22_Witness ==
    /\ fc.pc = "done"
    /\ ~fc.dataset.NumberOfFrames.has
    /\ fc.dataset.pixels = "ok"
    /\ fc.dataset.shape = <<2, 99, 100>>
    /\ fc.result = 2

(***************************************************************************)
(* SpecPil: dicom_to_pil (image_utils.py), one stage per step.  The        *)
(* dataset's attributes are drawn at the start; whether a library call     *)
(* raises is drawn when the stage runs.                                    *)
(***************************************************************************)
Photometrics ==
    {"MONOCHROME1", "MONOCHROME2", "RGB", "YBR_FULL", "YBR_FULL_422",
     "PALETTE COLOR", "HSV"}

\* exception classes the stages can meet
ExcTypes == {"ValueError", "RuntimeError"}

\* line 277: Image.new('L', (512, 512), 128) with {'error': str(e)}
Placeholder ==
    [kind |-> "placeholder", mode |-> "L", width |-> 512, height |-> 512,
     fill |-> 128, metadata |-> {"error"}]

\* lines 259-272
Raster(mode) ==
    [kind |-> "raster", mode |-> mode, width |-> 0, height |-> 0, fill |-> 0,
     metadata |-> {"window_center", "window_width", "photometric", "frame_index"}]

NoResult ==
    [kind |-> "none", mode |-> "", width |-> 0, height |-> 0, fill |-> 0,
     metadata |-> {}]

InitPil ==
    /\ SchedIdle /\ WkIdle /\ AsmIdle /\ WinIdle /\ SrvIdle /\ FcIdle /\ PdfIdle
    /\ \E ph \in Photometrics, nf \in 1..MaxFrames, sh \in 1..MaxFrames,
          fi \in 0..MaxFrames, fm \in BOOLEAN, hw \in BOOLEAN :
          pil = [pc |-> "decompress",
                 photometric |-> ph,
                 NumberOfFrames |-> nf,     \* getattr(dataset, 'NumberOfFrames', 1)
                 shape0 |-> sh,             \* pixel_array.shape[0]
                 frame_index |-> fi,
                 has_file_meta |-> fm,
                 hasWindow |-> hw,          \* WindowCenter and WindowWidth present
                 window |-> "none",         \* none | dicom | auto
                 frame |-> "whole",         \* whole | extracted
                 raisedIn |-> {},           \* stages in which something raised
                 escaped |-> "none",        \* stage whose exception reached line 274
                 inverted |-> FALSE,        \* line 173 was applied
                 lut |-> "none",            \* lines 227-239: ok, or the call that raised
                 fallback |-> "none",       \* lines 243-247: ok | raised
                 gray_input |-> "none",     \* the buffer lines 243-247 work on
                 result |-> NoResult]

\* Variant: the boundary handler names ValueError only.
OuterCaughtValueErrorOnly(exc) == exc = "ValueError"

\* line 274: except Exception
OuterCaught(exc) == TRUE

\* An exception of class exc leaves stage st of the activation p and
\* reaches the end of the try block.
EscapeOf(p, st, exc) ==
    IF OuterCaught(exc)
    THEN pil' = [p EXCEPT !.pc = "returned", !.raisedIn = @ \cup {st},
                          !.escaped = st, !.result = Placeholder]
    ELSE pil' = [p EXCEPT !.pc = "propagated", !.raisedIn = @ \cup {st},
                          !.escaped = st]

Escape(st, exc) == EscapeOf(pil, st, exc)

\* lines 110-114: decompress() under its own try/except Exception
PilDecompress ==
    /\ pil.pc = "decompress"
    /\ IF pil.has_file_meta
       THEN \E fails \in BOOLEAN :
              pil' = [pil EXCEPT !.pc = "pixels",
                                 !.raisedIn = IF fails THEN @ \cup {"decompression"} ELSE @]
       ELSE pil' = [pil EXCEPT !.pc = "pixels"]
    /\ UNCHANGED <<schedVars, wk, asm, win, srv, fc, pdf>>

\* line 118: dataset.pixel_array
PilPixels ==
    /\ pil.pc = "pixels"
    /\ \E fault \in {"none"} \cup ExcTypes :
          IF fault = "none"
          THEN pil' = [pil EXCEPT !.pc = "frames"]
          ELSE Escape("pixel_decoding", fault)
    /\ UNCHANGED <<schedVars, wk, asm, win, srv, fc, pdf>>

\* Variant: the index one past the last frame is let through.
FrameOutOfRangeStrict(frame_index, shape0) == frame_index > shape0

\* line 132: frame_index >= pixel_array.shape[0]
FrameOutOfRange(frame_index, shape0) == frame_index >= shape0

\* lines 130-135
PilFrames ==
    /\ pil.pc = "frames"
    /\ IF pil.NumberOfFrames > 1
       THEN IF FrameOutOfRange(pil.frame_index, pil.shape0)
            THEN Escape("frame_extraction", "ValueError")
            ELSE pil' = [pil EXCEPT !.pc = "window", !.frame = "extracted"]
       ELSE pil' = [pil EXCEPT !.pc = "window"]
    /\ UNCHANGED <<schedVars, wk, asm, win, srv, fc, pdf>>

\* lines 138-154: the declared window, read under except (ValueError, TypeError, IndexError)
PilWindow ==
    /\ pil.pc = "window"
    /\ IF pil.hasWindow
       THEN \E fails \in BOOLEAN :
              pil' = [pil EXCEPT !.pc = "dispatch",
                                 !.window = IF fails THEN "none" ELSE "dicom",
                                 !.raisedIn = IF fails THEN @ \cup {"window"} ELSE @]
       ELSE pil' = [pil EXCEPT !.pc = "dispatch"]
    /\ UNCHANGED <<schedVars, wk, asm, win, srv, fc, pdf>>

\* the window after lines 164-165 / 244-245 / 253-254
WindowUsed == IF pil.window = "none" THEN "auto" ELSE pil.window

\* lines 157-175 and 249-256: rescale, window, (inversion,) Image.fromarray
PilGray ==
    /\ pil.pc = "dispatch"
    /\ pil.photometric \notin {"RGB", "YBR_FULL", "YBR_FULL_422", "PALETTE COLOR"}
    /\ \E fault \in {"none"} \cup ExcTypes :
          IF fault = "none"
          THEN pil' = [pil EXCEPT !.pc = "returned", !.window = WindowUsed,
                                  !.inverted = (pil.photometric = "MONOCHROME1"),
                                  !.result = Raster("L")]
          ELSE Escape("photometric_transform", fault)
    /\ UNCHANGED <<schedVars, wk, asm, win, srv, fc, pdf>>

\* lines 177-220: shape check (raise ValueError), normalisation, YBR conversion
PilColor ==
    /\ pil.pc = "dispatch"
    /\ pil.photometric \in {"RGB", "YBR_FULL", "YBR_FULL_422"}
    /\ \E fault \in {"none"} \cup ExcTypes :
          IF fault = "none"
          THEN pil' = [pil EXCEPT !.pc = "returned", !.result = Raster("RGB")]
          ELSE Escape("photometric_transform", fault)
    /\ UNCHANGED <<schedVars, wk, asm, win, srv, fc, pdf>>

\* Variant: the palette branch has no handler of its own.
InnerCaughtNothing(exc) == FALSE

\* line 240: except Exception
InnerCaught(exc) == TRUE

\* lines 222-247: apply_color_lut and Image.fromarray under their own
\* try/except Exception, with the grayscale fallback inside the handler.
\* When apply_color_lut raises, pixel_array is still the index buffer; when
\* Image.fromarray raises, line 228 has replaced it by the table's output.
PilPalette ==
    /\ pil.pc = "dispatch"
    /\ pil.photometric = "PALETTE COLOR"
    /\ \E lut \in {"ok", "apply_color_lut", "fromarray"}, exc \in ExcTypes,
          fault \in {"none"} \cup ExcTypes :
          LET p == [pil EXCEPT !.lut = lut]
          IN IF lut = "ok"
             THEN pil' = [p EXCEPT !.pc = "returned", !.result = Raster("RGB")]
             ELSE IF ~InnerCaught(exc)
             THEN EscapeOf(p, "photometric_transform", exc)
             ELSE LET q == [p EXCEPT !.gray_input =
                                       IF lut = "apply_color_lut"
                                       THEN "index_buffer" ELSE "lut_output",
                                     !.raisedIn = @ \cup {"photometric_transform"}]
                  IN IF fault = "none"
                     THEN pil' = [q EXCEPT !.pc = "returned", !.window = WindowUsed,
                                           !.fallback = "ok",
                                           !.result = Raster("L")]
                     ELSE EscapeOf([q EXCEPT !.fallback = "raised"],
                                   "photometric_transform", fault)
    /\ UNCHANGED <<schedVars, wk, asm, win, srv, fc, pdf>>

NextPil ==
    \/ PilDecompress
    \/ PilPixels
    \/ PilFrames
    \/ PilWindow
    \/ PilGray
    \/ PilColor
    \/ PilPalette

SpecPil == InitPil /\ [][NextPil]_vars

\* C10 as stated: the call never propagates an exception, and whenever a
\* stage (decompression, pixel decoding, frame extraction, photometric
\* transform) raised, what it returns is the 512x512 gray-128 placeholder
\* with the error marker as only metadata.
C10_AnyRaiseGivesPlaceholder ==
    /\ pil.pc # "propagated"
    /\ (pil.pc = "returned"
          /\ pil.raisedIn \cap {"decompression", "pixel_decoding",
                                "frame_extraction", "photometric_transform"} # {})
        => pil.result = Placeholder

\* C10 (amended): the call never propagates an exception; it returns the
\* 512x512 gray-128 placeholder with the error marker as only metadata exactly
\* when an exception reached the boundary handler, which is whenever pixel
\* decoding or frame extraction raised.  A failed decompression alone, or a
\* failed palette lookup whose grayscale fallback succeeds, still returns a
\* raster with success metadata.
C10_EscapedRaiseGivesPlaceholder ==
    /\ pil.pc # "propagated"
    /\ pil.pc = "returned" =>
          /\ (pil.escaped # "none") <=> (pil.result = Placeholder)
          /\ (pil.raisedIn \cap {"pixel_decoding", "frame_extraction"} # {})
                => pil.result = Placeholder
          /\ pil.escaped = "none" =>
                pil.result.kind = "raster" /\ "error" \notin pil.result.metadata

\* C10 witness: after a failed decompression, pixel decoding raised and the
\* placeholder came back.
C10_Witness ==
    /\ pil.pc = "returned"
    /\ pil.raisedIn = {"decompression", "pixel_decoding"}
    /\ pil.result = Placeholder

\* C24 as stated: for a palette image, when apply_color_lut raises the
\* result is never the placeholder but a grayscale raster with success
\* metadata.
C24_LutFailureNeverPlaceholder ==
    (pil.pc = "returned" /\ pil.photometric = "PALETTE COLOR"
       /\ pil.lut = "apply_color_lut") =>
        pil.result = Raster("L")

\* C24 (amended): for a palette image, when nothing raises the result is an
\* RGB raster from the lookup table; when apply_color_lut raises, the
\* exception is handled inside the palette branch, which runs rescale +
\* window on the index buffer without inversion, and the result is that
\* grayscale raster with success metadata unless the fallback itself raises,
\* in which case the placeholder is returned.
C24_PaletteFallback ==
    (pil.pc = "returned" /\ pil.photometric = "PALETTE COLOR"
       /\ pil.escaped \notin {"pixel_decoding", "frame_extraction"}) =>
        /\ pil.lut = "ok" => pil.result = Raster("RGB")
        /\ pil.lut = "apply_color_lut" =>
              /\ pil.gray_input = "index_buffer"
              /\ ~pil.inverted
              /\ pil.fallback \in {"ok", "raised"}
              /\ pil.fallback = "ok" =>
                    /\ pil.result = Raster("L")
                    /\ pil.window \in {"dicom", "auto"}
                    /\ "error" \notin pil.result.metadata
              /\ pil.fallback = "raised" => pil.result = Placeholder

\* C24 witness: apply_color_lut raised on a palette image without a declared
\* window and the fallback returned a grayscale raster under the automatic
\* window.
C24_Witness ==
    /\ pil.pc = "returned"
    /\ pil.photometric = "PALETTE COLOR"
    /\ pil.lut = "apply_color_lut"
    /\ pil.fallback = "ok"
    /\ pil.window = "auto"
    /\ pil.result = Raster("L")

(***************************************************************************)
(* SpecWindow: apply_window (image_utils.py) on every pixel array, window  *)
(* center and window width of the explored ranges.  Pixel values, centers  *)
(* and widths are integers; the window bounds, which are center -/+        *)
(* width / 2, are kept in half units (twice their value) so that they stay *)
(* exact.                                                                  *)
(***************************************************************************)
Min2(a, b) == IF a <= b THEN a ELSE b

Max2(a, b) == IF a >= b THEN a ELSE b

\* floor(a / b) for b # 0
FloorDiv(a, b) == IF b > 0 THEN a \div b ELSE (0 - a) \div (0 - b)

\* line 50, in half units
window_min(window_center, window_width) == 2 * window_center - window_width

\* line 51, in half units
window_max(window_center, window_width) == 2 * window_center + window_width

\* Variant: the values are not clipped to the window.
clip_none(x, lo, hi) == x

\* np.clip(a, a_min, a_max) is minimum(a_max, maximum(a, a_min))
clip(x, lo, hi) == Min2(hi, Max2(x, lo))

\* (x - lo) / (hi - lo) * 255, rounded down to an integer
scale(x, lo, hi) == FloorDiv((x - lo) * 255, hi - lo)

\* .astype(np.uint8) of an integral value
astype_uint8(v) == v % 256

\* np.full_like(pixel_array, 128)
full_like_128(pixel_array) == [i \in DOMAIN pixel_array |-> 128]

\* lines 50-60: the body of the try block, before the cast
window_scaled(pixel_array, window_center, window_width) ==
    LET lo == window_min(window_center, window_width)
        hi == window_max(window_center, window_width)
        clipped == [i \in DOMAIN pixel_array |-> clip(2 * pixel_array[i], lo, hi)]
    IN IF hi # lo
       THEN [i \in DOMAIN pixel_array |-> scale(clipped[i], lo, hi)]
       ELSE full_like_128(clipped)

\* lines 66-70: the handler's min-max normalisation, before the cast
minmax_scaled(pixel_array) ==
    LET pixel_min == CHOOSE v \in Range(pixel_array) : \A u \in Range(pixel_array) : v <= u
        pixel_max == CHOOSE v \in Range(pixel_array) : \A u \in Range(pixel_array) : v >= u
    IN IF pixel_max # pixel_min
       THEN [i \in DOMAIN pixel_array |-> scale(pixel_array[i], pixel_min, pixel_max)]
       ELSE full_like_128(pixel_array)

PixelArrays == UNION {[1..n -> (0 - MaxPixel)..MaxPixel] : n \in 1..MaxPixels}

InitWindow ==
    /\ SchedIdle /\ WkIdle /\ AsmIdle /\ PilIdle /\ SrvIdle /\ FcIdle /\ PdfIdle
    /\ \E a \in PixelArrays, c \in (0 - MaxCenter)..MaxCenter,
          w \in (0 - MaxWidth)..MaxWidth, num \in BOOLEAN :
          win = [pc |-> "call", pixel_array |-> a, window_center |-> c,
                 window_width |-> w,
                 numeric |-> num,      \* center and width are numbers
                 scaled |-> << >>,     \* the values handed to astype
                 out |-> << >>]

\* lines 48-62: nothing raises, the windowed array is cast and returned
WindowApply ==
    /\ win.pc = "call"
    /\ win.numeric
    /\ LET v == window_scaled(win.pixel_array, win.window_center, win.window_width)
       IN win' = [win EXCEPT !.pc = "returned", !.scaled = v,
                             !.out = [i \in DOMAIN v |-> astype_uint8(v[i])]]
    /\ UNCHANGED <<schedVars, wk, asm, pil, srv, fc, pdf>>

\* lines 63-71: the arithmetic of line 50 raised (a center or width that is
\* no number), the handler normalises by minimum and maximum
WindowFallback ==
    /\ win.pc = "call"
    /\ ~win.numeric
    /\ LET v == minmax_scaled(win.pixel_array)
       IN win' = [win EXCEPT !.pc = "fallback", !.scaled = v,
                             !.out = [i \in DOMAIN v |-> astype_uint8(v[i])]]
    /\ UNCHANGED <<schedVars, wk, asm, pil, srv, fc, pdf>>

NextWindow == WindowApply \/ WindowFallback

SpecWindow == InitWindow /\ [][NextWindow]_vars

\* C15: for every pixel array and every numeric center and width, every value
\* apply_window computes lies within [0, 255] before the cast to 8 bits, so
\* the cast changes nothing and every returned value lies within [0, 255];
\* with width 0 every returned value is 128.  The handler's normalisation
\* stays within [0, 255] as well.
C15_WindowRange ==
    win.pc \in {"returned", "fallback"} =>
        /\ DOMAIN win.out = DOMAIN win.pixel_array
        /\ \A i \in DOMAIN win.out :
              /\ win.scaled[i] \in 0..255
              /\ win.out[i] = win.scaled[i]
        /\ (win.pc = "returned" /\ win.window_width = 0) =>
              \A i \in DOMAIN win.out : win.out[i] = 128

\* C15 witness: an array of two different values, one below and one above
\* the center, windowed with width 0: both come back as 128.
C15_Witness ==
    /\ win.pc = "returned"
    /\ win.window_width = 0
    /\ Len(win.pixel_array) = 2
    /\ win.pixel_array[1] < win.window_center
    /\ win.pixel_array[2] > win.window_center
    /\ win.out = <<128, 128>>

\* A second case of C15: a negative width and a value outside the window.
C15_WitnessNegativeWidth ==
    /\ win.pc = "returned"
    /\ win.window_width < 0
    /\ \E i \in DOMAIN win.out : win.pixel_array[i] > win.window_center + 1
    /\ \A i \in DOMAIN win.out : win.out[i] = 255

(***************************************************************************)
(* SpecMono: the grayscale branch of dicom_to_pil (image_utils.py 157-175) *)
(* applied twice to the same pixel data, rescale and window attributes,    *)
(* once tagged MONOCHROME1 and once MONOCHROME2.  Percentiles and window   *)
(* bounds are exact: a bound is kept as an integer count of 1/unit.        *)
(***************************************************************************)
\* stored pixel values
StoredArrays == UNION {[1..n -> 0..MaxPixel] : n \in 1..MaxPixels}

\* (RescaleSlope, RescaleIntercept): the defaults, and a pair that changes
\* the values
Rescales == {[slope |-> 1, intercept |-> 0], [slope |-> 2, intercept |-> 0 - 1]}

\* WindowCenter and WindowWidth, or neither
DeclaredWindows ==
    {[has |-> FALSE, center |-> 0, width |-> 0]}
    \cup {[has |-> TRUE, center |-> c, width |-> w] :
            c \in (0 - MaxCenter)..MaxCenter, w \in (0 - MaxWidth)..MaxWidth}

\* lines 31-43
apply_rescale(pixel_array, rescale) ==
    IF rescale.slope # 1 \/ rescale.intercept # 0
    THEN [i \in DOMAIN pixel_array |->
             pixel_array[i] * rescale.slope + rescale.intercept]
    ELSE pixel_array

\* the k-th smallest value of an array
KthSmallest(pixel_array, k) ==
    CHOOSE v \in Range(pixel_array) :
        /\ Cardinality({i \in DOMAIN pixel_array : pixel_array[i] < v}) < k
        /\ Cardinality({i \in DOMAIN pixel_array : pixel_array[i] <= v}) >= k

\* np.percentile(pixel_array, q), linear interpolation, in hundredths
percentile(pixel_array, q) ==
    LET n == Len(pixel_array)
        pos == q * (n - 1)
        lower == KthSmallest(pixel_array, pos \div 100 + 1)
        upper == KthSmallest(pixel_array, Min2(pos \div 100 + 2, n))
    IN 100 * lower + (pos % 100) * (upper - lower)

\* lines 74-87: the bounds center -/+ width / 2 of the automatic window, in
\* units of 1/200
auto_window(pixel_array) ==
    LET p2 == percentile(pixel_array, 2)
        p98 == percentile(pixel_array, 98)
        spread == KthSmallest(pixel_array, Len(pixel_array))
                     - KthSmallest(pixel_array, 1)
        width == IF p98 - p2 < 100 THEN 100 * Max2(1, spread) ELSE p98 - p2
    IN [lo |-> p2 + p98 - width, hi |-> p2 + p98 + width, unit |-> 200]

\* lines 141-151 and 164-165: the declared window when there is one, the
\* automatic one otherwise
window_bounds(pixel_array, window) ==
    IF window.has
    THEN [lo |-> window_min(window.center, window.width),
          hi |-> window_max(window.center, window.width), unit |-> 2]
    ELSE auto_window(pixel_array)

\* apply_window, lines 50-62, for bounds given in units of 1/unit
apply_window(pixel_array, b) ==
    [i \in DOMAIN pixel_array |->
        astype_uint8(IF b.hi # b.lo
                     THEN scale(clip(b.unit * pixel_array[i], b.lo, b.hi), b.lo, b.hi)
                     ELSE 128)]

\* Variant: the inversion subtracts from 256.
invert_from_256(v) == (256 - v) % 256

\* line 173: 255 - pixel_array on an array of uint8
invert(v) == (255 - v) % 256

\* lines 157-175
gray_branch(photometric, pixel_array, rescale, window) ==
    LET rescaled == apply_rescale(pixel_array, rescale)
        windowed == apply_window(rescaled, window_bounds(rescaled, window))
    IN IF photometric = "MONOCHROME1"
       THEN [i \in DOMAIN windowed |-> invert(windowed[i])]
       ELSE windowed

InitMono ==
    /\ SchedIdle /\ WkIdle /\ AsmIdle /\ PilIdle /\ SrvIdle /\ FcIdle /\ PdfIdle
    /\ \E a \in StoredArrays, r \in Rescales, w \in DeclaredWindows :
          win = [pc |-> "mono", pixel_array |-> a, rescale |-> r, window |-> w,
                 out |-> [p \in {"MONOCHROME1", "MONOCHROME2"} |-> << >>]]

\* dicom_to_pil on the dataset tagged with photometric interpretation p
ConvertMono ==
    /\ win.pc = "mono"
    /\ \E p \in {"MONOCHROME1", "MONOCHROME2"} :
          /\ win.out[p] = << >>
          /\ win' = [win EXCEPT !.out[p] =
                        gray_branch(p, win.pixel_array, win.rescale, win.window)]
    /\ UNCHANGED <<schedVars, wk, asm, pil, srv, fc, pdf>>

NextMono == ConvertMono

SpecMono == InitMono /\ [][NextMono]_vars

\* C23: for the same pixel data, rescale and window parameters, the
\* MONOCHROME1 output equals 255 minus the MONOCHROME2 output at every
\* pixel, and both outputs are values within [0, 255].
C23_Mono1IsInverseOfMono2 ==
    (/\ win.pc = "mono"
     /\ win.out["MONOCHROME1"] # << >>
     /\ win.out["MONOCHROME2"] # << >>) =>
        /\ DOMAIN win.out["MONOCHROME1"] = DOMAIN win.pixel_array
        /\ DOMAIN win.out["MONOCHROME2"] = DOMAIN win.pixel_array
        /\ \A i \in DOMAIN win.pixel_array :
              /\ win.out["MONOCHROME1"][i] \in 0..255
              /\ win.out["MONOCHROME2"][i] \in 0..255
              /\ win.out["MONOCHROME1"][i] = 255 - win.out["MONOCHROME2"][i]

\* C23 witness: both conversions done on rescaled values, with a pixel that
\* is neither black nor white and one that is black in MONOCHROME2, white in
\* MONOCHROME1.
C23_Witness ==
    /\ win.pc = "mono"
    /\ win.rescale.slope = 2
    /\ win.out["MONOCHROME1"] # << >>
    /\ win.out["MONOCHROME2"] # << >>
    /\ \E i \in DOMAIN win.pixel_array :
          win.out["MONOCHROME2"][i] = 0 /\ win.out["MONOCHROME1"][i] = 255
    /\ \E i \in DOMAIN win.pixel_array :
          win.out["MONOCHROME2"][i] \notin {0, 255}

(***************************************************************************)
(* SpecRender: the service of main.py.  Requests to /pdf-generator/render  *)
(* arrive; each handler runs to its response without yielding (it awaits   *)
(* nothing); an accepted request leaves a background task, which runs      *)
(* process_dicom_async: synchronous up to `await send_callback`, where     *)
(* other handlers and tasks can run, then synchronous to its end.          *)
(***************************************************************************)
\* process_key = f"{examID}-{pacs_studies_iuid}"; the study identifier is
\* the same for every request here, so the key stands for the exam
ProcessKeys == 1..MaxExam

\* UrlCallback: a string, possibly empty
CallbackUrls == {"", "url"}

\* how the processing of lines 296-315 ends
Outcomes == {"pdf", "no_studies", "study_raised", "pdf_raised"}

\* how the POST of send_callback ends (lines 240-283)
CallbackResults == {"status_200", "status_other", "exception"}

InitRender ==
    /\ SchedIdle /\ WkIdle /\ AsmIdle /\ PilIdle /\ WinIdle /\ FcIdle /\ PdfIdle
    /\ srv = [processed_requests |-> {},
              tasks |-> << >>,       \* background tasks, in order of creation
              responses |-> << >>]   \* responses given, in order

\* Variant: the check for a request under way is missing.
AlreadyProcessingNever(process_key, processed) == FALSE

\* line 413: if process_key in processed_requests
AlreadyProcessing(process_key, processed) == process_key \in processed

Response(k, code, st) == [key |-> k, code |-> code, status |-> st]

\* Variant: the task ends without touching the tracking set.
ReleaseNever(processed, process_key) == processed

\* lines 372-376: finally, remove the key from processed_requests
Release(processed, process_key) == processed \ {process_key}

\* lines 397-446: render_dicom_to_pdf_async, from the request to its response.
\* validate_client_ip (line 408) returns a value the handler does not read.
Render ==
    /\ Len(srv.responses) < MaxRequests
    /\ \E k \in ProcessKeys, url \in CallbackUrls, ip_allowed \in BOOLEAN :
          IF AlreadyProcessing(k, srv.processed_requests)
          THEN srv' = [srv EXCEPT !.responses = Append(@, Response(k, 409, "error"))]
          ELSE IF url = ""
          THEN \* lines 421, 426-430, 441-445: added, then removed by the handler
               srv' = [srv EXCEPT
                         !.processed_requests = (@ \cup {k}) \ {k},
                         !.responses = Append(@, Response(k, 500, "error"))]
          ELSE srv' = [srv EXCEPT
                         !.processed_requests = @ \cup {k},
                         !.tasks = Append(@, [key |-> k, pc |-> "queued",
                                              outcome |-> "none", callbacks |-> 0,
                                              logs |-> << >>]),
                         !.responses = Append(@, Response(k, 200, "accepted"))]
    /\ UNCHANGED <<schedVars, wk, asm, pil, win, fc, pdf>>

\* lines 287-333: process_dicom_async from its start to `await send_callback`
\* when a PDF was made; lines 351-376 otherwise: the handler sends the error
\* log (send_log_callback, to CREATE_LOG_URL) and the finally block removes
\* the key
TaskRun ==
    \E i \in 1..Len(srv.tasks), o \in Outcomes :
        /\ srv.tasks[i].pc = "queued"
        /\ IF o = "pdf"
           THEN srv' = [srv EXCEPT !.tasks[i].pc = "await_callback",
                                   !.tasks[i].outcome = o]
           ELSE srv' = [srv EXCEPT !.tasks[i].pc = "done",
                                   !.tasks[i].outcome = o,
                                   !.tasks[i].logs = Append(@, "error"),
                                   !.processed_requests =
                                       Release(@, srv.tasks[i].key)]
        /\ UNCHANGED <<schedVars, wk, asm, pil, win, fc, pdf>>

\* lines 231-285 and 333-349, 372-376: the POST to UrlCallback ends, its log
\* is sent, then the success log, then the finally block removes the key
CallbackReturns ==
    \E i \in 1..Len(srv.tasks), r \in CallbackResults :
        /\ srv.tasks[i].pc = "await_callback"
        /\ srv' = [srv EXCEPT !.tasks[i].pc = "done",
                              !.tasks[i].callbacks = @ + 1,
                              !.tasks[i].logs =
                                  @ \o <<IF r = "status_200" THEN "callback_ok"
                                                             ELSE "callback_failed",
                                         "success">>,
                              !.processed_requests = Release(@, srv.tasks[i].key)]
        /\ UNCHANGED <<schedVars, wk, asm, pil, win, fc, pdf>>

NextRender == Render \/ TaskRun \/ CallbackReturns

SpecRender == InitRender /\ [][NextRender]_vars

\* C16: when the background processing of an accepted request has ended,
\* a callback has been sent to the request's UrlCallback, whatever the
\* outcome of the processing.
C16_EndedTaskSentCallback ==
    \A i \in 1..Len(srv.tasks) :
        srv.tasks[i].pc = "done" => srv.tasks[i].callbacks >= 1

\* the tasks accepted and not yet ended
LiveTasks(sv) == {i \in 1..Len(sv.tasks) : sv.tasks[i].pc # "done"}

LiveKeys(sv) == {sv.tasks[i].key : i \in LiveTasks(sv)}

\* C17: at no time are two background processings of the same key accepted
\* and not ended; the tracking set holds exactly the keys under way; and a
\* render request arriving while its key is under way is answered 409 and
\* creates no task, while any other request with a callback address is
\* accepted.
C17_NoDuplicateProcessing ==
    /\ [](/\ \A i, j \in LiveTasks(srv) : srv.tasks[i].key = srv.tasks[j].key => i = j
          /\ srv.processed_requests = LiveKeys(srv))
    /\ [][Len(srv'.responses) > Len(srv.responses) =>
            LET r == srv'.responses[Len(srv'.responses)]
            IN IF r.key \in LiveKeys(srv)
               THEN r.code = 409 /\ srv'.tasks = srv.tasks
                    /\ srv'.processed_requests = srv.processed_requests
               ELSE r.code # 409
                    /\ (r.status = "accepted" <=> Len(srv'.tasks) = Len(srv.tasks) + 1)]_vars

\* C17 witness: a request was answered 409 while a task of its key awaits its
\* callback, and a request of another key was accepted meanwhile.
C17_Witness ==
    /\ Len(srv.responses) = 3
    /\ srv.responses[1].status = "accepted"
    /\ srv.responses[2] = Response(srv.responses[1].key, 409, "error")
    /\ srv.responses[3].status = "accepted"
    /\ srv.tasks[1].pc = "await_callback"
    /\ Len(srv.tasks) = 2

(***************************************************************************)
(* SpecRenderFair: the service with the scheduling of the event loop: a    *)
(* background task that was added runs once the response is sent, and the  *)
(* POST of send_callback ends (httpx client with a timeout).               *)
(***************************************************************************)
SpecRenderFair ==
    /\ InitRender /\ [][NextRender]_vars
    /\ WF_vars(TaskRun)
    /\ WF_vars(CallbackReturns)

\* C29: a key in the tracking set is eventually removed from it; whenever a
\* background task has ended, however it ended, its key is in the set only
\* if a later task of that key is under way; a request the endpoint answers
\* with an error leaves the set as it found it; and a request is refused as
\* a duplicate only while a task of its key is under way, so that a key
\* whose processing ended is accepted again.
C29_GuardReleased ==
    /\ \A k \in ProcessKeys :
          (k \in srv.processed_requests) ~> (k \notin srv.processed_requests)
    /\ [](\A i \in 1..Len(srv.tasks) :
             (srv.tasks[i].pc = "done"
                /\ srv.tasks[i].key \in srv.processed_requests)
               => \E j \in LiveTasks(srv) : j > i /\ srv.tasks[j].key = srv.tasks[i].key)
    /\ [][Len(srv'.responses) > Len(srv.responses) =>
            LET r == srv'.responses[Len(srv'.responses)]
            IN /\ r.status = "error" =>
                     srv'.processed_requests = srv.processed_requests
               /\ r.code = 409 => r.key \in LiveKeys(srv)]_vars

\* C29 witness: a key was accepted, its processing ended without a PDF, the
\* same key was accepted again and that processing ended too; the set is
\* empty.
C29_Witness ==
    /\ Len(srv.responses) = 2
    /\ srv.responses[1].status = "accepted"
    /\ srv.responses[2] = Response(srv.responses[1].key, 200, "accepted")
    /\ srv.tasks[1].outcome = "no_studies"
    /\ srv.tasks[2].pc = "done"
    /\ srv.processed_requests = {}

(***************************************************************************)
(* SpecPdf: create_pdf_from_studies (pdf_utils.py 269-388) over finalized  *)
(* studies, one create_image_page call (lines 187-266) per step.  An       *)
(* instance is described by what the page code reads of it.                *)
(***************************************************************************)
PdfInstances ==
    [photometric : {"MONOCHROME2", "RGB"},
     hasWindow : BOOLEAN,          \* WindowCenter and WindowWidth present
     converts : BOOLEAN,           \* dicom_to_pil reaches line 272
     frame_count : 1..MaxFrames]   \* get_frame_count(instance)

\* studies[s][r][i]: one instance; two in one series; two series; two studies
PdfStudies ==
    {<< << <<a>> >> >> : a \in PdfInstances}
    \cup {<< << <<a, b>> >> >> : a \in PdfInstances, b \in PdfInstances}
    \cup {<< << <<a>>, <<b>> >> >> : a \in PdfInstances, b \in PdfInstances}
    \cup {<< << <<a>> >>, << <<b>> >> >> : a \in PdfInstances, b \in PdfInstances}

\* image_utils.py 138-165, 259-264, 274-278: what dicom_to_pil hands back.
\* The grayscale branch always sets a window (declared or automatic); the
\* colour branch leaves window_center and window_width as it found them,
\* None when the dataset declares no window.
PilOutcome(instance) ==
    IF ~instance.converts
    THEN [image |-> "placeholder", keys |-> {"error"}, window |-> "absent"]
    ELSE [image |-> "raster",
          keys |-> {"window_center", "window_width", "photometric", "frame_index"},
          window |-> IF instance.photometric = "RGB" /\ ~instance.hasWindow
                     THEN "None" ELSE "number"]

\* lines 187-266.  Lines 207-208 put the image into elements before the
\* caption is made; formatting None with ':.0f' (line 233) raises TypeError,
\* and the handler appends the error paragraph to the same list.
create_image_page(instance) ==
    LET r == PilOutcome(instance)
        shown == <<"Spacer", "Image:" \o r.image>>
        windowed == {"window_center", "window_width"} \subseteq r.keys
    IN IF windowed /\ r.window = "None"
       THEN [elements |-> shown \o <<"Spacer", "Error loading image", "PageBreak">>,
             series_name |-> "Error",
             image_info |-> "Failed to load"]
       ELSE [elements |-> shown \o <<"Spacer", "instance_info">>
                            \o (IF windowed THEN <<"window_info">> ELSE << >>)
                            \o <<"PageBreak">>,
             series_name |-> "series",
             image_info |-> "instance_info"]

\* lines 311-347: the position after <<s, r, i, f>> in the nested loops,
\* <<0, 0, 0, 0>> after the last
NextPosition(sts, at) ==
    LET s == at[1]  r == at[2]  i == at[3]  f == at[4]
    IN IF f + 1 < sts[s][r][i].frame_count THEN <<s, r, i, f + 1>>
       ELSE IF i < Len(sts[s][r]) THEN <<s, r, i + 1, 0>>
       ELSE IF r < Len(sts[s]) THEN <<s, r + 1, 1, 0>>
       ELSE IF s < Len(sts) THEN <<s + 1, 1, 1, 0>>
       ELSE <<0, 0, 0, 0>>

InitPdf ==
    /\ SchedIdle /\ WkIdle /\ AsmIdle /\ PilIdle /\ WinIdle /\ SrvIdle /\ FcIdle
    /\ \E st \in PdfStudies :
          pdf = [pc |-> "pages", studies |-> st, at |-> <<1, 1, 1, 0>>,
                 pages |-> << >>]

\* lines 334-342: one pass of the frame loop
PdfPage ==
    /\ pdf.pc = "pages"
    /\ LET at == pdf.at
           instance == pdf.studies[at[1]][at[2]][at[3]]
           next == NextPosition(pdf.studies, at)
       IN pdf' = [pdf EXCEPT
                    !.pages = Append(@, [at |-> at, instance |-> instance,
                                         page |-> create_image_page(instance)]),
                    !.at = next,
                    !.pc = IF next = <<0, 0, 0, 0>> THEN "build" ELSE "pages"]
    /\ UNCHANGED <<schedVars, wk, asm, pil, win, srv, fc>>

\* lines 369-388: doc.build(elements), which may raise
PdfBuild ==
    /\ pdf.pc = "build"
    /\ \E ok \in BOOLEAN :
          pdf' = [pdf EXCEPT !.pc = IF ok THEN "returned" ELSE "raised"]
    /\ UNCHANGED <<schedVars, wk, asm, pil, win, srv, fc>>

NextPdf == PdfPage \/ PdfBuild

SpecPdf == InitPdf /\ [][NextPdf]_vars

\* a position comes before another in study, series, instance, frame order
PositionBefore(a, b) ==
    \E k \in 1..4 : a[k] < b[k] /\ \A j \in 1..(k - 1) : a[j] = b[j]

\* C30: the page of every instance and frame that dicom_to_pil converted
\* holds that raster and is not the 'Error loading image' page, whatever the
\* photometric interpretation and whether or not a window is declared; and
\* the pages stand in study, series, instance, frame order.
C30_ConvertedImagePagesShowRaster ==
    /\ \A n \in 1..Len(pdf.pages) :
          pdf.pages[n].instance.converts =>
              /\ "Image:raster" \in Range(pdf.pages[n].page.elements)
              /\ "Error loading image" \notin Range(pdf.pages[n].page.elements)
              /\ pdf.pages[n].page.series_name # "Error"
    /\ \A n \in 1..(Len(pdf.pages) - 1) :
          PositionBefore(pdf.pages[n].at, pdf.pages[n + 1].at)

(***************************************************************************)
(* SpecSync: one request to /pdf-generator/health or to                    *)
(* /pdf-generator/render/sync (main.py 378-395, 455-535), step by step.    *)
(* The sync handler awaits nothing: it runs to its response.               *)
(***************************************************************************)
\* max_workers of RenderRequestSync: Optional[int], None when not given
SyncWorkers ==
    {[given |-> FALSE, value |-> 0]}
    \cup {[given |-> TRUE, value |-> n] : n \in Requested}

\* lines 192-221: every client is allowed when ALLOWED_CLIENT_IPS is unset
\* or empty, the listed ones otherwise
validate_client_ip(request) == ~request.ips_configured \/ request.client_listed

\* line 470: render_request.max_workers or 4
MaxWorkersOrDefault(w) == IF w.given /\ w.value # 0 THEN w.value ELSE 4

InitSync ==
    /\ SchedIdle /\ WkIdle /\ AsmIdle /\ PilIdle /\ WinIdle /\ FcIdle /\ PdfIdle
    /\ \E e \in {"health", "sync"}, k \in ProcessKeys, c \in BOOLEAN,
          l \in BOOLEAN, w \in SyncWorkers :
          srv = [pc |-> "handler",
                 endpoint |-> e,
                 examID |-> k,
                 ips_configured |-> c,    \* ALLOWED_CLIENT_IPS names addresses
                 client_listed |-> l,     \* the client's address is one of them
                 max_workers |-> w,
                 retrievals |-> 0,        \* calls of process_dicom_wado_study
                 workers |-> 0,           \* max_workers of that call
                 raised |-> "none",       \* what the try block raised
                 logs |-> << >>,          \* statusCode of each send_log_callback
                 code |-> 0,              \* status of the response
                 body |-> "none"]

\* lines 378-395: health_check; check_ip_access raises 403
HealthCheck ==
    /\ srv.pc = "handler" /\ srv.endpoint = "health"
    /\ IF validate_client_ip(srv)
       THEN srv' = [srv EXCEPT !.pc = "responded", !.code = 200, !.body = "status"]
       ELSE srv' = [srv EXCEPT !.pc = "responded", !.code = 403, !.body = "detail"]
    /\ UNCHANGED <<schedVars, wk, asm, pil, win, fc, pdf>>

\* lines 461-478: validate_client_ip is called and its result dropped; then
\* process_dicom_wado_study returns studies, returns none (HTTPException 400
\* raised at line 474) or raises
SyncRetrieve ==
    /\ srv.pc = "handler" /\ srv.endpoint = "sync"
    /\ \E o \in {"studies", "no_studies", "study_raised"} :
          LET called == [srv EXCEPT !.retrievals = @ + 1,
                                    !.workers = MaxWorkersOrDefault(srv.max_workers)]
          IN IF o = "studies"
             THEN srv' = [called EXCEPT !.pc = "pdf"]
             ELSE srv' = [called EXCEPT !.pc = "except",
                             !.raised = IF o = "no_studies" THEN "HTTPException_400"
                                                            ELSE "Exception"]
    /\ UNCHANGED <<schedVars, wk, asm, pil, win, fc, pdf>>

\* lines 480-517: create_pdf_from_studies, the success log, the PDF response
SyncPdf ==
    /\ srv.pc = "pdf"
    /\ \E ok \in BOOLEAN :
          IF ok
          THEN srv' = [srv EXCEPT !.pc = "responded", !.logs = Append(@, 200),
                                  !.code = 200, !.body = "pdf"]
          ELSE srv' = [srv EXCEPT !.pc = "except", !.raised = "Exception"]
    /\ UNCHANGED <<schedVars, wk, asm, pil, win, fc, pdf>>

\* lines 519-535: except Exception (HTTPException is one): the error log,
\* then raise HTTPException(status_code=500, detail=str(e))
SyncExcept ==
    /\ srv.pc = "except"
    /\ srv' = [srv EXCEPT !.pc = "responded", !.logs = Append(@, 500),
                          !.code = 500, !.body = "detail"]
    /\ UNCHANGED <<schedVars, wk, asm, pil, win, fc, pdf>>

NextSync == HealthCheck \/ SyncRetrieve \/ SyncPdf \/ SyncExcept

SpecSync == InitSync /\ [][NextSync]_vars

\* C26: a request to /pdf-generator/render/sync whose retrieval produced no
\* study is answered with status 400, not with the status of thrown
\* failures.
C26_SyncNoStudiesIs400 ==
    (srv.pc = "responded" /\ srv.endpoint = "sync"
       /\ srv.raised = "HTTPException_400") =>
        srv.code = 400

\* C27: a request from a client that ALLOWED_CLIENT_IPS does not list is
\* answered 403 and starts no retrieval, on /pdf-generator/render/sync as on
\* /pdf-generator/health.
C27_UnlistedClientRejected ==
    (srv.pc # "handler" /\ srv.ips_configured /\ ~srv.client_listed) =>
        /\ srv.retrievals = 0
        /\ srv.pc = "responded"
        /\ srv.code = 403

\* C11 as stated: for every image, a call with a frame index equal to or
\* greater than the declared frame count returns the placeholder with the
\* error marker, and propagates nothing.
C11_IndexBeyondDeclaredCountGivesPlaceholder ==
    /\ pil.pc # "propagated"
    /\ (pil.pc = "returned" /\ pil.frame_index >= pil.NumberOfFrames)
          => pil.result = Placeholder

\* C11 (amended): for an image whose declared frame count is greater than 1,
\* a call with a frame index equal to or greater than the length of the
\* decoded array's leading axis never extracts a frame and returns the
\* placeholder with the error marker, propagating nothing; for an image
\* declaring one frame (or none) the frame index is not looked at: no frame
\* is extracted and frame extraction raises nothing.
C11_IndexBeyondFramesGivesPlaceholder ==
    /\ pil.pc # "propagated"
    /\ (pil.NumberOfFrames > 1 /\ pil.frame_index >= pil.shape0) =>
          /\ pil.frame = "whole"
          /\ pil.pc \notin {"window", "dispatch"}
          /\ pil.pc = "returned" =>
                /\ pil.result = Placeholder
                /\ pil.escaped \in {"pixel_decoding", "frame_extraction"}
    /\ pil.NumberOfFrames <= 1 =>
          /\ pil.frame = "whole"
          /\ "frame_extraction" \notin pil.raisedIn

\* C11 witness: a multi-frame image asked for the frame one past its last:
\* the frame check raised and the placeholder came back.
C11_Witness ==
    /\ pil.pc = "returned"
    /\ pil.NumberOfFrames > 1
    /\ pil.frame_index = pil.shape0
    /\ pil.shape0 = pil.NumberOfFrames
    /\ pil.escaped = "frame_extraction"
    /\ pil.result = Placeholder

\* every instance entry of the tree, fetchable or not, by position
DeclaredEntries(m) ==
    UNION {UNION {{<<s, r, k>> : k \in 1..Len(m.studies[s].series[r].instances)} :
                     r \in 1..Len(m.studies[s].series)} :
              s \in 1..Len(m.studies)}

\* the worker count in force once the metadata has been organized
WorkersSelected ==
    pc \in {"study", "series", "submit", "collect", "seq", "seq_wait", "add", "done"}

\* C28 as stated: the worker count in force in the loops is the value of
\* optimize_max_workers for the number of instance entries of the whole
\* tree, the calls in flight never exceed it, and it is never more than
\* min(8, requested).
C28_WorkersAtMostMin8Requested ==
    WorkersSelected =>
        /\ max_workers = optimize_max_workers(Cardinality(DeclaredEntries(metadata)),
                                              requested)
        /\ Cardinality(running) <= Max2(1, max_workers)
        /\ max_workers <= Min2(8, requested)

\* C28 (amended): the worker count in force in the loops is the value of
\* optimize_max_workers for the number of instance entries of the whole
\* tree, whichever series is being fetched; the calls in flight never exceed
\* it (one call when it is below 1); and it is never more than
\* max(1, min(8, requested)).
C28_WorkersFromStudyTotal ==
    WorkersSelected =>
        /\ max_workers = optimize_max_workers(Cardinality(DeclaredEntries(metadata)),
                                              requested)
        /\ Cardinality(running) <= Max2(1, max_workers)
        /\ max_workers <= Max2(1, Min2(8, requested))

\* C28 witness: a series of 2 instances, for which optimize_max_workers
\* gives 1, is fetched by 2 workers at once because the tree declares more.
C28_Witness ==
    /\ pc = "collect"
    /\ Len(CurInstances) = 2
    /\ optimize_max_workers(Len(CurInstances), requested) = 1
    /\ Cardinality(running) = 2
    /\ max_workers = 2

====
